---------------------------- MODULE Spec2Model ----------------------------
(***************************************************************************)
(* Verification model of the neocraft terrain pipeline and block registry. *)
(*                                                                         *)
(* The module holds one state machine per subsystem.  Every specification  *)
(* runs one subsystem and parks the variables of the others:               *)
(*   SpecFill    TerrainGenerator.fillColumn on one column                 *)
(*   SpecReg     BlockRegistry metadata queries                            *)
(*   SpecMine    MineshaftGenerator.generate on a filled chunk             *)
(*   SpecTree    TerrainGenerator.placeTrees on a filled chunk             *)
(*   SpecStruct  StructureGenerator.generate on a filled chunk             *)
(*   SpecGen     TerrainGenerator.generateChunk, all passes, run twice     *)
(*   SpecBiome   BiomeMap.getBiome on one (temperature, moisture) pair     *)
(*   SpecMgr     the Chunk Manager's generation and meshing jobs           *)
(*   SpecWeather WeatherSystem.update, frame after frame                   *)
(*   SpecGame    Game.update's fall damage and drowning, mob attacks       *)
(*   SpecLight   light propagation over a small grid of cells              *)
(***************************************************************************)
EXTENDS Integers, Sequences, FiniteSets, TLC

VARIABLES
  seaLevel,    \* SEA_LEVEL as imported by TerrainGenerator
  chunk,       \* the Chunk a generator pass works on
  writes,      \* the setBlock calls of the last step: who, where, old tag, new tag
  mine,        \* MineshaftGenerator: seed, arguments, position and locals of generate
  tree,        \* placeTrees: its locals and position
  struct,      \* StructureGenerator: arguments, position and locals of generate
  gen,         \* generateChunk: its arguments and position
  bio,         \* BiomeMap.getBiome: the noise values sampled and the biome returned
  mgr,         \* Chunk Manager: the chunks' lifecycle, the jobs in flight
  weather,     \* WeatherSystem: state, targetState, intensity, timer
  player,      \* Game.update: the player's air and health, the drowning accumulators
  light,       \* Lighting: the cells' light levels and the propagation queue
  col,         \* fillColumn: the column being filled, y -> tag
  colH,        \* fillColumn: surfaceHeight argument
  colBiome,    \* fillColumn: biome argument
  colFilled,   \* fillColumn: whether the call has run
  regOp,       \* BlockRegistry: the last query made
  regType,     \* BlockRegistry: its tag argument
  regFace,     \* BlockRegistry: its face argument (getTexture)
  regResult    \* BlockRegistry: what the query did: a value or a throw

fillVars == <<col, colH, colBiome, colFilled>>
regVars  == <<regOp, regType, regFace, regResult>>
gridVars == <<chunk, writes>>
passVars == <<mine, tree, struct, gen>>
sideVars == <<weather, player, light>>
vars     == <<seaLevel, fillVars, regVars, gridVars, passVars, bio, mgr, sideVars>>

----------------------------------------------------------------------------
(* Program constants                                                       *)

CHUNK_SIZE == 16

CHUNK_HEIGHT == 256

\* utils/Constants.ts is not among the sources; 62 is the nominal value and
\* SpecFill lets the sea level range around it.
SEA_LEVEL == 62

\* How far SpecFill lets the sea level range around SEA_LEVEL.
SeaSpread == 2

SeaLevels == (SEA_LEVEL - SeaSpread) .. (SEA_LEVEL + SeaSpread)

Biome == {"PLAINS", "FOREST", "DESERT", "TAIGA", "MOUNTAINS", "OCEAN",
          "BEACH", "TUNDRA", "JUNGLE", "SWAMP"}

Max(a, b) == IF a >= b THEN a ELSE b

Min(a, b) == IF a <= b THEN a ELSE b

----------------------------------------------------------------------------
(* 32-bit words, as the bit operators of the code see them.  A word is a   *)
(* pair <<hi, lo>> of 16-bit halves, so that no intermediate value leaves  *)
(* the range of the model checker's integers.                              *)

RECURSIVE Pow2(_)
Pow2(n) == IF n = 0 THEN 1 ELSE 2 * Pow2(n - 1)

Half == Pow2(16)

\* The word of a non-negative number below 2^31 (ToInt32 of a small number).
WordOf(n) == <<n \div Half, n % Half>>

RECURSIVE XorBits(_, _, _)
XorBits(a, b, n) ==
  IF n = 0 THEN 0
  ELSE ((a + b) % 2) + 2 * XorBits(a \div 2, b \div 2, n - 1)

RECURSIVE OrBits(_, _, _)
OrBits(a, b, n) ==
  IF n = 0 THEN 0
  ELSE (IF a % 2 = 1 \/ b % 2 = 1 THEN 1 ELSE 0)
       + 2 * OrBits(a \div 2, b \div 2, n - 1)

\* a ^ b
Xor32(a, b) == <<XorBits(a[1], b[1], 16), XorBits(a[2], b[2], 16)>>

\* a | b
Or32(a, b) == <<OrBits(a[1], b[1], 16), OrBits(a[2], b[2], 16)>>

\* (a + b) | 0
Add32(a, b) ==
  LET lo == a[2] + b[2] IN
  <<(a[1] + b[1] + lo \div Half) % Half, lo % Half>>

\* a >>> n, for 0 < n < 16
Shr32(a, n) ==
  <<a[1] \div Pow2(n), (a[2] \div Pow2(n)) + (a[1] % Pow2(n)) * Pow2(16 - n)>>

\* The product of two 16-bit halves as a word.
MulHalves(x, y) ==
  LET p0 == x * (y % 256)            \* below 2^24
      p1 == x * (y \div 256)         \* below 2^24, weighs 2^8
      lo == p0 + (p1 % 256) * 256    \* below 2^25
  IN  <<(p1 \div 256 + lo \div Half) % Half, lo % Half>>

\* Math.imul(a, b)
Imul32(a, b) ==
  LET ll == MulHalves(a[2], b[2])
      hl == MulHalves(a[1], b[2])
      lh == MulHalves(a[2], b[1])
  IN  <<(ll[1] + hl[2] + lh[2]) % Half, ll[2]>>

\* ToInt32(n * k) for an integer n of small magnitude and a word k: the
\* product is exact as a double, and the bit operator that follows reduces
\* it modulo 2^32.
MulSmall32(n, k) ==
  IF n >= 0 THEN Imul32(WordOf(n), k) ELSE Add32(Xor32(Imul32(WordOf(0 - n), k), <<Half - 1, Half - 1>>), <<0, 1>>)

\* mulberry32, line 13: t = Math.imul(seed ^ (seed >>> 15), 1 | seed)
MulberryT1(seed) == Imul32(Xor32(seed, Shr32(seed, 15)), Or32(<<0, 1>>, seed))

\* mulberry32, line 14: t = (t + Math.imul(t ^ (t >>> 7), 61 | t)) ^ t
MulberryT2(t) ==
  Xor32(Add32(t, Imul32(Xor32(t, Shr32(t, 7)), Or32(<<0, 61>>, t))), t)

\* mulberry32, line 15: the numerator (t ^ (t >>> 14)) >>> 0
MulberryOut(t) == Xor32(t, Shr32(t, 14))

\* mulberry32, lines 13-15, for the seed that line 12 has advanced
MulberryCall(seed) ==
  [seed |-> seed, out |-> MulberryOut(MulberryT2(MulberryT1(seed)))]

\* One call of the closure mulberry32 returns: the closure's seed after the
\* call, and the 32-bit numerator of the returned fraction out / 2^32.
Mulberry32(seed) == MulberryCall(Add32(seed, <<27947, 31221>>))   \* 0x6d2b79f5

\* The next n calls of the closure whose seed is `seed`, in order.
RECURSIVE Draws(_, _)
Draws(seed, n) ==
  IF n = 0 THEN << >>
  ELSE LET r == Mulberry32(seed) IN <<r>> \o Draws(r.seed, n - 1)

\* Math.floor(r * n) for the fraction r = out / 2^32 and 0 < n <= 1000.
FloorMul(out, n) == (out[1] * n + (out[2] * n) \div Half) \div Half

\* r < p / q, for the decimal literal p / q of the code
Below(out, p, q) == FloorMul(out, q) < p

\* r > p / q
Above(out, p, q) ==
  \/ FloorMul(out, q) > p
  \/ /\ FloorMul(out, q) = p
     /\ ~ /\ (out[2] * q) % Half = 0
          /\ (out[1] * q + (out[2] * q) \div Half) % Half = 0

----------------------------------------------------------------------------
(* BlockRegistry                                                           *)

Def(transparent, solid, lightEmission, all, top, bottom, side) ==
  [transparent |-> transparent, solid |-> solid, lightEmission |-> lightEmission,
   all |-> all, top |-> top, bottom |-> bottom, side |-> side]

Cube(transparent, solid, tex) == Def(transparent, solid, 0, tex, "", "", "")

\* The registry after the module's register calls; "" is an absent face.
RegisteredBlocks ==
  [ AIR            |-> Cube(TRUE,  FALSE, "air"),
    STONE          |-> Cube(FALSE, TRUE,  "stone"),
    COBBLESTONE    |-> Cube(FALSE, TRUE,  "cobblestone"),
    BEDROCK        |-> Cube(FALSE, TRUE,  "bedrock"),
    DIRT           |-> Cube(FALSE, TRUE,  "dirt"),
    GRASS          |-> Def(FALSE, TRUE, 0, "", "grass_top", "dirt", "grass_side"),
    SAND           |-> Cube(FALSE, TRUE,  "sand"),
    SAND_STONE     |-> Def(FALSE, TRUE, 0, "", "sandstone_top", "sandstone_bottom",
                           "sandstone_side"),
    GRAVEL         |-> Cube(FALSE, TRUE,  "gravel"),
    SNOW           |-> Cube(FALSE, TRUE,  "snow"),
    WATER          |-> Cube(TRUE,  FALSE, "water"),
    ICE            |-> Cube(TRUE,  TRUE,  "ice"),
    WOOD_OAK       |-> Def(FALSE, TRUE, 0, "", "oak_log_top", "oak_log_top", "oak_log_side"),
    LEAVES_OAK     |-> Cube(TRUE,  TRUE,  "oak_leaves"),
    PLANKS_OAK     |-> Cube(FALSE, TRUE,  "oak_planks"),
    WOOD_BIRCH     |-> Def(FALSE, TRUE, 0, "", "birch_log_top", "birch_log_top",
                           "birch_log_side"),
    LEAVES_BIRCH   |-> Cube(TRUE,  TRUE,  "birch_leaves"),
    WOOD_SPRUCE    |-> Def(FALSE, TRUE, 0, "", "spruce_log_top", "spruce_log_top",
                           "spruce_log_side"),
    LEAVES_SPRUCE  |-> Cube(TRUE,  TRUE,  "spruce_leaves"),
    COAL_ORE       |-> Cube(FALSE, TRUE,  "coal_ore"),
    IRON_ORE       |-> Cube(FALSE, TRUE,  "iron_ore"),
    GOLD_ORE       |-> Cube(FALSE, TRUE,  "gold_ore"),
    DIAMOND_ORE    |-> Cube(FALSE, TRUE,  "diamond_ore"),
    CRAFTING_TABLE |-> Def(FALSE, TRUE, 0, "", "crafting_table_top", "oak_planks",
                           "crafting_table_side"),
    FURNACE        |-> Def(FALSE, TRUE, 0, "", "furnace_top", "furnace_top", "furnace_side"),
    GLASS          |-> Cube(TRUE,  TRUE,  "glass"),
    TORCH          |-> Def(TRUE, FALSE, 14, "torch", "", "", ""),
    TALL_GRASS     |-> Cube(TRUE,  FALSE, "tall_grass"),
    FLOWER_RED     |-> Cube(TRUE,  FALSE, "flower_red"),
    FLOWER_YELLOW  |-> Cube(TRUE,  FALSE, "flower_yellow"),
    CACTUS         |-> Def(TRUE, TRUE, 0, "", "cactus_top", "cactus_bottom", "cactus_side"),
    WOOD_JUNGLE    |-> Def(FALSE, TRUE, 0, "", "jungle_log_top", "jungle_log_top",
                           "jungle_log_side"),
    LEAVES_JUNGLE  |-> Cube(TRUE,  TRUE,  "jungle_leaves") ]

RegisteredTags == DOMAIN RegisteredBlocks

\* Tags no register call names (a BlockType is a number at run time).
ForeignTags == {"TAG_200", "TAG_201"}

BlockType == RegisteredTags \cup ForeignTags

Thrown == [threw |-> TRUE, value |-> "unknown block type"]

Returned(v) == [threw |-> FALSE, value |-> v]

Has(type) == type \in RegisteredTags

\* get: the definition of the tag, or a throw.  The returned value is the
\* tag whose definition it is.
Get(type) ==
  IF ~Has(type) THEN Thrown ELSE Returned(type)

GetTexture(type, face) ==
  LET block == Get(type) IN
  IF block.threw THEN Thrown
  ELSE LET faces == RegisteredBlocks[block.value] IN
       IF faces.all # "" THEN Returned(faces.all)
       ELSE IF faces[face] # "" THEN Returned(faces[face])
       ELSE IF faces.side # "" THEN Returned(faces.side)
       ELSE Returned("missing")

\* isTransparent without its has() guard.
IsTransparentStrict(type) ==
  IF type = "AIR" THEN Returned(TRUE)
  ELSE LET block == Get(type) IN
       IF block.threw THEN Thrown
       ELSE Returned(RegisteredBlocks[block.value].transparent)

IsTransparent(type) ==
  IF type = "AIR" THEN Returned(TRUE)
  ELSE IF Has(type)
       THEN LET block == Get(type) IN
            IF block.threw THEN Thrown
            ELSE Returned(RegisteredBlocks[block.value].transparent)
       ELSE Returned(FALSE)

IsSolid(type) ==
  IF type = "AIR" THEN Returned(FALSE)
  ELSE IF Has(type)
       THEN LET block == Get(type) IN
            IF block.threw THEN Thrown
            ELSE Returned(RegisteredBlocks[block.value].solid)
       ELSE Returned(TRUE)

RegOps == {"get", "getTexture", "isTransparent", "isSolid"}

InitReg ==
  /\ regOp = "none"
  /\ regType = "AIR"
  /\ regFace = "side"
  /\ regResult = Returned("none")

QueryGet ==
  \E type \in BlockType :
    /\ regOp' = "get"
    /\ regType' = type
    /\ regFace' = "side"
    /\ regResult' = Get(type)

QueryGetTexture ==
  \E type \in BlockType, face \in {"top", "bottom", "side"} :
    /\ regOp' = "getTexture"
    /\ regType' = type
    /\ regFace' = face
    /\ regResult' = GetTexture(type, face)

QueryIsTransparent ==
  \E type \in BlockType :
    /\ regOp' = "isTransparent"
    /\ regType' = type
    /\ regFace' = "side"
    /\ regResult' = IsTransparent(type)

QueryIsSolid ==
  \E type \in BlockType :
    /\ regOp' = "isSolid"
    /\ regType' = type
    /\ regFace' = "side"
    /\ regResult' = IsSolid(type)

----------------------------------------------------------------------------
(* TerrainGenerator.fillColumn                                             *)

GetSurfaceBlock(biome) ==
  CASE biome \in {"PLAINS", "FOREST"} -> "GRASS"
    [] biome = "DESERT"    -> "SAND"
    [] biome = "TAIGA"     -> "GRASS"
    [] biome = "MOUNTAINS" -> "STONE"
    [] biome = "OCEAN"     -> "SAND"
    [] biome = "BEACH"     -> "SAND"
    [] biome = "TUNDRA"    -> "SNOW"
    [] biome = "JUNGLE"    -> "GRASS"
    [] biome = "SWAMP"     -> "GRASS"
    [] OTHER               -> "GRASS"

GetSubSurfaceBlock(biome) ==
  CASE biome \in {"DESERT", "BEACH"} -> "SAND"
    [] biome = "OCEAN"     -> "SAND"
    [] biome = "MOUNTAINS" -> "STONE"
    [] biome = "TUNDRA"    -> "DIRT"
    [] biome = "JUNGLE"    -> "DIRT"
    [] biome = "SWAMP"     -> "DIRT"
    [] OTHER               -> "DIRT"

\* fillColumn without its branch for non-ocean columns below sea level.
FillBlockOceanOnly(y, surfaceHeight, biome, sea) ==
  IF y = 0 THEN "BEDROCK"
  ELSE IF y < surfaceHeight - 4 THEN "STONE"
  ELSE IF y < surfaceHeight THEN GetSubSurfaceBlock(biome)
  ELSE IF y = surfaceHeight THEN GetSurfaceBlock(biome)
  ELSE IF y <= sea /\ biome = "OCEAN" THEN "WATER"
  ELSE "AIR"

\* The tag one iteration of fillColumn's loop writes at height y.
FillBlock(y, surfaceHeight, biome, sea) ==
  IF y = 0 THEN "BEDROCK"
  ELSE IF y < surfaceHeight - 4 THEN "STONE"
  ELSE IF y < surfaceHeight THEN GetSubSurfaceBlock(biome)
  ELSE IF y = surfaceHeight THEN GetSurfaceBlock(biome)
  ELSE IF y <= sea /\ biome = "OCEAN" THEN "WATER"
  ELSE IF y <= sea /\ surfaceHeight < sea THEN "WATER"
  ELSE "AIR"

\* fillColumn without the setBlock call of its last branch: where it would
\* set AIR the cell keeps what it held.
FillColumnKeepingAir(column, surfaceHeight, biome, sea) ==
  [y \in 0 .. (CHUNK_HEIGHT - 1) |->
     IF FillBlock(y, surfaceHeight, biome, sea) = "AIR" THEN column[y]
     ELSE FillBlock(y, surfaceHeight, biome, sea)]

\* fillColumn: every y of the column is written, whatever it held.
FillColumn(column, surfaceHeight, biome, sea) ==
  [y \in 0 .. (CHUNK_HEIGHT - 1) |-> FillBlock(y, surfaceHeight, biome, sea)]

EmptyColumn == [y \in 0 .. (CHUNK_HEIGHT - 1) |-> "AIR"]

\* A fresh column and the arguments of the call to come: buildTerrain
\* clamps the surface height to [1, CHUNK_HEIGHT - 1].
InitFill ==
  /\ col = EmptyColumn
  /\ colH \in 1 .. (CHUNK_HEIGHT - 1)
  /\ colBiome \in Biome
  /\ colFilled = FALSE

\* The call fillColumn(chunk, lx, lz, colH, colBiome).
FillColumnCall ==
  /\ ~colFilled
  /\ col' = FillColumn(col, colH, colBiome, seaLevel)
  /\ colFilled' = TRUE
  /\ UNCHANGED <<colH, colBiome>>

----------------------------------------------------------------------------
(* Chunk: the block grid, 16 x 256 x 16 cells of one tag each, held as     *)
(* columns grid[x][z][y].                                                  *)

Coords == 0 .. (CHUNK_SIZE - 1)

InChunk(x, y, z) ==
  /\ x >= 0 /\ x < CHUNK_SIZE
  /\ z >= 0 /\ z < CHUNK_SIZE
  /\ y >= 0 /\ y < CHUNK_HEIGHT

\* A chunk as constructed: every cell AIR.
EmptyChunk == [x \in Coords |-> [z \in Coords |-> EmptyColumn]]

\* Chunk.getBlock; outside the grid the accessor answers the empty tag.
GetBlock(c, x, y, z) ==
  IF ~InChunk(x, y, z) THEN "AIR" ELSE c[x][z][y]

\* Chunk.setBlock; a write outside the grid changes nothing.
SetBlock(c, x, y, z, t) ==
  IF ~InChunk(x, y, z) THEN c ELSE [c EXCEPT ![x][z][y] = t]

\* A pass in progress: the chunk, the setBlock calls made so far, in order,
\* and the state of the pass's random stream.
Pass(c, rng) == [c |-> c, w |-> << >>, rng |-> rng]

\* chunk.setBlock(x, y, z, t), called from `by`.
Put(s, by, x, y, z, t) ==
  [s EXCEPT !.c = SetBlock(s.c, x, y, z, t),
            !.w = Append(s.w, [by |-> by, x |-> x, y |-> y, z |-> z,
                               old |-> GetBlock(s.c, x, y, z), new |-> t])]

\* The pass has got as far as s.  The loops below test it before every
\* iteration: an iteration starts from the state the one before has left.
Ready(s) == Len(s.w) >= 0

\* for (i = first; i < end; i++) Body: the pass after the loop, entered
\* at s with i = first.
RECURSIVE For(_, _, _, _)
For(s, Body(_, _), i, end) ==
  IF ~Ready(s) \/ i >= end THEN s ELSE For(Body(s, i), Body, i + 1, end)

\* The setBlock calls of the step just taken.
Writes == {writes[i] : i \in 1 .. Len(writes)}

----------------------------------------------------------------------------
(* buildTerrain.  The noise functions are inputs: a profile names, for     *)
(* every column, the biome and the surface height the noise maps to.       *)

\* The effective biome and the unclamped surface height of a column.
ProfileColumn(p, lx, lz) ==
  CASE p = "coast"  -> IF lx < 8 THEN [h |-> 62, biome |-> "BEACH"]
                       ELSE [h |-> 36, biome |-> "OCEAN"]
    [] p = "ridge"  -> IF lx < 8 THEN [h |-> 64, biome |-> "TAIGA"]
                       ELSE [h |-> 72, biome |-> "MOUNTAINS"]
    [] p = "taiga"  -> [h |-> 64, biome |-> "TAIGA"]
    [] p = "forest" -> [h |-> 66, biome |-> "FOREST"]
    [] p = "jungle" -> [h |-> 64, biome |-> "JUNGLE"]
    [] p = "dunes"  -> IF lx < 6 THEN [h |-> 67, biome |-> "PLAINS"]
                       ELSE [h |-> IF lz >= 8 THEN 65 ELSE 64, biome |-> "DESERT"]
    [] p = "hills"  -> [h |-> IF lx < 6 THEN 66 ELSE IF lx < 10 THEN 67 ELSE 69,
                        biome |-> "PLAINS"]
    [] p = "border" -> IF lz >= 12 THEN [h |-> 70, biome |-> "MOUNTAINS"]
                       ELSE [h |-> 64, biome |-> IF lx < 8 THEN "PLAINS" ELSE "DESERT"]
    [] p = "summit" -> [h |-> 254, biome |-> "DESERT"]
    [] p = "mesa"   -> [h |-> 250, biome |-> "DESERT"]
    [] p = "plateau" -> [h |-> 250, biome |-> "PLAINS"]
    [] OTHER        -> [h |-> 64, biome |-> "PLAINS"]

\* heightmap[lx][lz]: the clamped surface height
Heightmap(p, lx, lz) == Max(1, Min(ProfileColumn(p, lx, lz).h, CHUNK_HEIGHT - 1))

BuildTerrain(c, p) ==
  [lx \in Coords |-> [lz \in Coords |->
     FillColumn(c[lx][lz], Heightmap(p, lx, lz), ProfileColumn(p, lx, lz).biome,
                seaLevel)]]

----------------------------------------------------------------------------
(* MineshaftGenerator                                                      *)

DIRS == << <<1, 0>>, <<-1, 0>>, <<0, 1>>, <<0, -1>> >>

\* inBounds with its upper limits off by one.
InBoundsInclusive(x, z) == x >= 0 /\ x <= CHUNK_SIZE /\ z >= 0 /\ z <= CHUNK_SIZE

InBounds(x, z) == x >= 0 /\ x < CHUNK_SIZE /\ z >= 0 /\ z < CHUNK_SIZE

MineChunkRng(seed, worldX, worldZ) ==
  LET h0 == Add32(WordOf(seed), WordOf(1298755173))            \* 0x4d696e65
      h1 == Xor32(h0, MulSmall32(worldX, WordOf(492876847)))
      h2 == Xor32(h1, MulSmall32(worldZ, WordOf(715225739)))
  IN  Add32(Imul32(Xor32(h2, Shr32(h2, 13)), WordOf(1597334677)),
            <<50085, 51292>>)                                  \* 0xc3a5c85c

IsStone(c, x, y, z) ==
  IF ~InBounds(x, z) \/ y < 0 \/ y >= 256 THEN FALSE
  ELSE GetBlock(c, x, y, z) = "STONE"

IsStoneOrAir(c, x, y, z) ==
  IF ~InBounds(x, z) \/ y < 0 \/ y >= 256 THEN FALSE
  ELSE LET blk == GetBlock(c, x, y, z) IN blk = "STONE" \/ blk = "AIR"

PlaceTorch(s, x, y, z) ==
  IF InBounds(x, z) /\ y >= 1 /\ y < 255
  THEN Put(s, "placeTorch", x, y, z, "TORCH")
  ELSE s

\* carveRoom, innermost loop body
CarveRoomCell(s, x, y, z) ==
  IF y < 1 \/ y >= 255 THEN s
  ELSE LET existing == GetBlock(s.c, x, y, z) IN
       IF existing = "BEDROCK" \/ existing = "WATER" THEN s
       ELSE Put(s, "carveRoom", x, y, z, "AIR")

\* carveRoom's loops: x outermost, then z with its bounds check, then dy
CarveRoom(s, sx, sy, sz, w, h, d) ==
  For(s, LAMBDA sX, x :
    For(sX, LAMBDA sZ, z :
      IF ~InBounds(x, z) THEN sZ
      ELSE For(sZ, LAMBDA sY, dy : CarveRoomCell(sY, x, sy + dy, z), 0, h),
      sz, sz + d),
    sx, sx + w)

\* placeSupport: one pillar of three logs
Pillar(s, x, sy, z) ==
  IF InBounds(x, z)
  THEN Put(Put(Put(s, "placeSupport", x, sy, z, "WOOD_OAK"),
               "placeSupport", x, sy + 1, z, "WOOD_OAK"),
           "placeSupport", x, sy + 2, z, "WOOD_OAK")
  ELSE s

\* placeSupport: one plank of the top beam
Beam(s, bx, y, bz) ==
  IF InBounds(bx, bz) THEN Put(s, "placeSupport", bx, y, bz, "PLANKS_OAK") ELSE s

PlaceSupport(s, cx, sy, cz, px, pz) ==
  LET left  == Pillar(s, cx - px, sy, cz - pz)
      right == Pillar(left, cx + px, sy, cz + pz)
  IN  Beam(Beam(Beam(right, cx - px, sy + 2, cz - pz),
                cx, sy + 2, cz),
           cx + px, sy + 2, cz + pz)

\* carveCorridor's innermost loop body without its test for BEDROCK and
\* WATER.
CarveCorridorCellAnyTag(s, bx, by, bz) ==
  IF by < 1 \/ by >= 255 THEN s
  ELSE Put(s, "carveCorridor", bx, by, bz, "AIR")

\* carveCorridor, innermost loop body: every tag but BEDROCK and WATER is
\* replaced, ores and soil included.
CarveCorridorCell(s, bx, by, bz) ==
  IF by < 1 \/ by >= 255 THEN s
  ELSE LET existing == GetBlock(s.c, bx, by, bz) IN
       IF existing = "BEDROCK" \/ existing = "WATER" THEN s
       ELSE Put(s, "carveCorridor", bx, by, bz, "AIR")

\* carveCorridor: the 3-wide, 3-tall slice of one step, w = -1 .. 1
\* outermost, then dy = 0 .. 2
CarveSlice(s, cx, sy, cz, px, pz) ==
  For(s, LAMBDA sW, w :
    For(sW, LAMBDA sY, dy :
      CarveCorridorCell(sY, cx + px * w, sy + dy, cz + pz * w),
      0, 3),
    0 - 1, 2)

\* carveCorridor: one iteration of the step loop, past its bounds check
CorridorStep(s, cx, sy, cz, px, pz, step) ==
  LET carved  == CarveSlice(s, cx, sy, cz, px, pz)
      floored == IF IsStoneOrAir(carved.c, cx, sy - 1, cz)
                 THEN Put(carved, "floor", cx, sy - 1, cz, "PLANKS_OAK")
                 ELSE carved
      beamed  == IF step % 4 = 0
                 THEN PlaceSupport(floored, cx, sy, cz, px, pz)
                 ELSE floored
  IN  IF step % 8 = 4 /\ step > 0
      THEN PlaceTorch(beamed, cx + px, sy + 1, cz + pz)
      ELSE beamed

\* carveCorridor's perpendicular direction <<px, pz>>
Perp(dx, dz) == <<IF dz # 0 THEN 1 ELSE 0, IF dx # 0 THEN 1 ELSE 0>>

\* carveCorridor's bounds check at the head of the step loop
CorridorInBounds(sx, sz, dx, dz, step) ==
  LET cx == sx + dx * step
      cz == sz + dz * step
      pp == Perp(dx, dz)
  IN  InBounds(cx - pp[1], cz - pp[2]) /\ InBounds(cx + pp[1], cz + pp[2])

\* shuffleDirs' loop from index i down to 1 (indices of the code)
RECURSIVE ShuffleFrom(_, _, _)
ShuffleFrom(arr, rng, i) ==
  IF i <= 0 THEN [arr |-> arr, rng |-> rng]
  ELSE LET r == Mulberry32(rng)
           j == FloorMul(r.out, i + 1)
       IN  ShuffleFrom([k \in DOMAIN arr |->
                            IF k = i + 1 THEN arr[j + 1]
                            ELSE IF k = j + 1 THEN arr[i + 1] ELSE arr[k]],
                         r.seed, i - 1)

ShuffleDirs(rng) == ShuffleFrom(DIRS, rng, Len(DIRS) - 1)

\* No corridor being carved.
NoCorridor ==
  [kind |-> "none", sx |-> 0, sz |-> 0, dx |-> 0, dz |-> 0, length |-> 0, step |-> 0]

\* The locals of generate and buildNetwork before the first call.  calls
\* lists the carveCorridor calls made so far; entry is the chunk as generate
\* found it, where a specification keeps it.
MineLocals(seed, worldX, worldZ) ==
  [pc |-> "start", seed |-> seed, worldX |-> worldX, worldZ |-> worldZ,
   rng |-> <<0, 0>>, startX |-> 0, baseY |-> 0, startZ |-> 0,
   branchCount |-> 0, shuffledDirs |-> << >>, b |-> 0, cor |-> NoCorridor,
   calls |-> << >>, entry |-> << >>]

\* generate, up to the branch loop of buildNetwork: the spawn roll, the start
\* position, the stone test, the hub room with its torch, the branch count
\* and the shuffled directions.
MineGenerate ==
  /\ mine.pc = "start"
  /\ LET d == Draws(MineChunkRng(mine.seed, mine.worldX, mine.worldZ), 5)
         baseY  == 12 + FloorMul(d[2].out, 30)
         startX == 2 + FloorMul(d[3].out, CHUNK_SIZE - 4)
         startZ == 2 + FloorMul(d[4].out, CHUNK_SIZE - 4)
         hub    == PlaceTorch(CarveRoom(Pass(chunk, d[4].seed),
                                        startX - 1, baseY, startZ - 1, 3, 3, 3),
                              startX, baseY + 2, startZ)
         sh     == ShuffleDirs(d[5].seed)
     IN  IF Above(d[1].out, 3, 100)
         THEN /\ mine' = [mine EXCEPT !.pc = "done", !.rng = d[1].seed]
              /\ writes' = << >>
              /\ UNCHANGED chunk
         ELSE IF ~IsStone(chunk, startX, baseY, startZ)
         THEN /\ mine' = [mine EXCEPT !.pc = "done", !.rng = d[4].seed,
                            !.startX = startX, !.baseY = baseY, !.startZ = startZ]
              /\ writes' = << >>
              /\ UNCHANGED chunk
         ELSE /\ chunk' = hub.c
              /\ writes' = hub.w
              /\ mine' = [mine EXCEPT !.pc = "branch", !.rng = sh.rng,
                            !.startX = startX, !.baseY = baseY, !.startZ = startZ,
                            !.branchCount = 3 + FloorMul(d[5].out, 3),
                            !.shuffledDirs = sh.arr, !.b = 0]

\* The head of buildNetwork's branch loop with its condition true: the
\* branch's direction and length, and the call of carveCorridor from the hub.
MineBranch ==
  /\ mine.pc = "branch"
  /\ mine.b < mine.branchCount /\ mine.b < Len(mine.shuffledDirs)
  /\ LET dir == mine.shuffledDirs[(mine.b % Len(mine.shuffledDirs)) + 1]
         r1  == Mulberry32(mine.rng)
         cor == [kind |-> "primary", sx |-> mine.startX, sz |-> mine.startZ,
                 dx |-> dir[1], dz |-> dir[2],
                 length |-> 8 + FloorMul(r1.out, 16), step |-> 0]
     IN  mine' = [mine EXCEPT !.pc = "corridor", !.rng = r1.seed, !.cor = cor,
                              !.calls = Append(@, cor)]
  /\ writes' = << >>
  /\ UNCHANGED chunk

\* One iteration of carveCorridor's step loop.
MineCorridorStep ==
  /\ mine.pc = "corridor"
  /\ mine.cor.step < mine.cor.length
  /\ CorridorInBounds(mine.cor.sx, mine.cor.sz, mine.cor.dx, mine.cor.dz, mine.cor.step)
  /\ LET pp   == Perp(mine.cor.dx, mine.cor.dz)
         done == CorridorStep(Pass(chunk, mine.rng),
                              mine.cor.sx + mine.cor.dx * mine.cor.step, mine.baseY,
                              mine.cor.sz + mine.cor.dz * mine.cor.step,
                              pp[1], pp[2], mine.cor.step)
     IN  /\ chunk' = done.c
         /\ writes' = done.w
         /\ mine' = [mine EXCEPT !.rng = done.rng, !.cor.step = @ + 1]

\* buildNetwork with the secondary corridor attempted wherever the primary
\* one nominally ends.
MineCorridorReturnAnyEnd ==
  /\ mine.pc = "corridor"
  /\ \/ mine.cor.step >= mine.cor.length
     \/ ~CorridorInBounds(mine.cor.sx, mine.cor.sz, mine.cor.dx, mine.cor.dz, mine.cor.step)
  /\ LET d       == Draws(mine.rng, 3)
         endX    == mine.startX + mine.cor.dx * mine.cor.length
         endZ    == mine.startZ + mine.cor.dz * mine.cor.length
         turnDir == IF mine.cor.dz = 0 THEN DIRS[2 + FloorMul(d[2].out, 2) + 1]
                    ELSE DIRS[FloorMul(d[2].out, 2) + 1]
         cor     == [kind |-> "secondary", sx |-> endX, sz |-> endZ,
                     dx |-> turnDir[1], dz |-> turnDir[2],
                     length |-> 6 + FloorMul(d[3].out, 10), step |-> 0]
     IN  IF mine.cor.kind = "secondary"
         THEN mine' = [mine EXCEPT !.pc = "branch", !.b = @ + 1, !.cor = NoCorridor]
         ELSE IF Below(d[1].out, 4, 10)
         THEN mine' = [mine EXCEPT !.rng = d[3].seed, !.cor = cor,
                                   !.calls = Append(@, cor)]
         ELSE mine' = [mine EXCEPT !.pc = "branch", !.rng = d[1].seed, !.b = @ + 1,
                                   !.cor = NoCorridor]
  /\ writes' = << >>
  /\ UNCHANGED chunk

\* carveCorridor returns, by the end of its loop or by the break at the
\* chunk's edge.  After a primary corridor, buildNetwork rolls for a
\* secondary one, turned by 90 degrees, from the corridor's nominal end;
\* otherwise the branch loop goes on to its next iteration.
MineCorridorReturn ==
  /\ mine.pc = "corridor"
  /\ \/ mine.cor.step >= mine.cor.length
     \/ ~CorridorInBounds(mine.cor.sx, mine.cor.sz, mine.cor.dx, mine.cor.dz, mine.cor.step)
  /\ LET d       == Draws(mine.rng, 3)
         endX    == mine.startX + mine.cor.dx * mine.cor.length
         endZ    == mine.startZ + mine.cor.dz * mine.cor.length
         turnDir == IF mine.cor.dz = 0 THEN DIRS[2 + FloorMul(d[2].out, 2) + 1]
                    ELSE DIRS[FloorMul(d[2].out, 2) + 1]
         cor     == [kind |-> "secondary", sx |-> endX, sz |-> endZ,
                     dx |-> turnDir[1], dz |-> turnDir[2],
                     length |-> 6 + FloorMul(d[3].out, 10), step |-> 0]
     IN  IF mine.cor.kind = "secondary"
         THEN mine' = [mine EXCEPT !.pc = "branch", !.b = @ + 1, !.cor = NoCorridor]
         ELSE IF Below(d[1].out, 4, 10) /\ InBounds(endX, endZ)
         THEN mine' = [mine EXCEPT !.rng = d[3].seed, !.cor = cor,
                                   !.calls = Append(@, cor)]
         ELSE mine' = [mine EXCEPT !.pc = "branch", !.rng = d[1].seed, !.b = @ + 1,
                                   !.cor = NoCorridor]
  /\ writes' = << >>
  /\ UNCHANGED chunk

\* The branch loop's exit and the return of generate.
MineReturn ==
  /\ mine.pc = "branch"
  /\ ~(mine.b < mine.branchCount /\ mine.b < Len(mine.shuffledDirs))
  /\ mine' = [mine EXCEPT !.pc = "done"]
  /\ writes' = << >>
  /\ UNCHANGED chunk

\* World seeds and chunk coordinates <<seed, cx, cz>> the generator is run on.
MineCases ==
  << <<0, 0, 0>>, <<299, 0, 0>>, <<13, -3, 5>>, <<953, 2, -1>>,
     <<211, -3, 5>>, <<1645, 0, 0>>, <<638, 0, 0>>, <<433, 2, -1>>,
     <<1864, -3, 5>>, <<725, 2, -1>>, <<1756, 0, 0>>, <<2523, 2, -1>>,
     <<142, 2, -1>>, <<2088, 2, -1>>, <<1, 0, 0>> >>

NumMineCases == 12

\* generateChunk's call of mineshaftGenerator.generate on a chunk that
\* buildTerrain has filled.
InitMine ==
  \E i \in 1 .. Min(NumMineCases, Len(MineCases)), p \in {"plains", "coast"} :
    LET filled == BuildTerrain(EmptyChunk, p) IN
    /\ chunk = filled
    /\ writes = << >>
    /\ mine = [MineLocals(MineCases[i][1], MineCases[i][2] * CHUNK_SIZE,
                          MineCases[i][3] * CHUNK_SIZE)
               EXCEPT !.entry = filled]

----------------------------------------------------------------------------
(* TreeGenerator and TerrainGenerator.placeTrees                           *)

Leaves == {"LEAVES_OAK", "LEAVES_BIRCH", "LEAVES_SPRUCE", "LEAVES_JUNGLE"}

TreeChunkRng(seed, worldX, worldZ) ==
  LET h1 == Xor32(WordOf(seed), MulSmall32(worldX, WordOf(374761393)))
      h2 == Xor32(h1, MulSmall32(worldZ, WordOf(668265263)))
  IN  Imul32(Xor32(h2, Shr32(h2, 13)), WordOf(1274126177))

IsInBounds(lx, y, lz) ==
  /\ lx >= 0 /\ lx < CHUNK_SIZE
  /\ lz >= 0 /\ lz < CHUNK_SIZE
  /\ y >= 0 /\ y < CHUNK_HEIGHT

SetIfInBounds(s, by, lx, y, lz, block) ==
  IF IsInBounds(lx, y, lz) THEN Put(s, by, lx, y, lz, block) ELSE s

\* The trunk loop of the four place...Tree methods.
Trunk(s, lx, y, lz, block, trunkHeight) ==
  For(s, LAMBDA sY, dy : SetIfInBounds(sY, "trunk", lx, y + dy, lz, block),
      0, trunkHeight)

\* placeLeafSphere, innermost loop body: distSq > (radius + 0.5)^2, in
\* quarters.
LeafSphereCell(s, cx, cy, cz, radius, leafBlock, dx, dy, dz) ==
  IF 4 * (dx * dx + dy * dy + dz * dz) > (2 * radius + 1) * (2 * radius + 1) THEN s
  ELSE IF IsInBounds(cx + dx, cy + dy, cz + dz)
            /\ GetBlock(s.c, cx + dx, cy + dy, cz + dz) = "AIR"
       THEN Put(s, "placeLeafSphere", cx + dx, cy + dy, cz + dz, leafBlock)
       ELSE s

\* placeLeafSphere: dx = -radius .. radius, dy = -radius .. radius + 1,
\* dz = -radius .. radius
PlaceLeafSphere(s, cx, cy, cz, radius, leafBlock) ==
  For(s, LAMBDA sX, dx :
    For(sX, LAMBDA sY, dy :
      For(sY, LAMBDA sZ, dz :
        LeafSphereCell(sZ, cx, cy, cz, radius, leafBlock, dx, dy, dz),
        0 - radius, radius + 1),
      0 - radius, radius + 2),
    0 - radius, radius + 1)

\* placeOakTree, placeBirchTree and placeJungleTree differ in their numbers
\* and tags only: trunkHeight = base + floor(rng() * spread).
\* s after one call of rng()
Drawn(s) == [s EXCEPT !.rng = Mulberry32(s.rng).seed]

SphereTreeOfHeight(s, lx, y, lz, trunkHeight, leafRadius, wood, leafBlock) ==
  PlaceLeafSphere(Trunk(s, lx, y, lz, wood, trunkHeight),
                  lx, y + trunkHeight - 1, lz, leafRadius, leafBlock)

PlaceSphereTree(s, lx, y, lz, base, spread, leafRadius, wood, leafBlock) ==
  SphereTreeOfHeight(Drawn(s), lx, y, lz,
                     base + FloorMul(Mulberry32(s.rng).out, spread),
                     leafRadius, wood, leafBlock)

PlaceOakTree(s, lx, y, lz) ==
  PlaceSphereTree(s, lx, y, lz, 4, 3, 2, "WOOD_OAK", "LEAVES_OAK")

PlaceBirchTree(s, lx, y, lz) ==
  PlaceSphereTree(s, lx, y, lz, 5, 3, 2, "WOOD_BIRCH", "LEAVES_BIRCH")

PlaceJungleTree(s, lx, y, lz) ==
  PlaceSphereTree(s, lx, y, lz, 8, 7, 3, "WOOD_JUNGLE", "LEAVES_JUNGLE")

\* Math.max(Math.round((1 - layerIndex / Math.max(totalLeafLayers - 1, 1)) * 3), 0)
\* for the trunk heights 6..9, that is totalLeafLayers 5..8, in the code's
\* double arithmetic.  Math.round takes halves upward; with 7 layers the
\* double (1 - 5/6) * 3 lies just below 0.5 and rounds to 0.
SpruceRadius(layerIndex, totalLeafLayers) ==
  LET n == Max(totalLeafLayers - 1, 1) IN
  IF n = 6 /\ layerIndex = 5 THEN 0
  ELSE Max((6 * (n - layerIndex) + n) \div (2 * n), 0)

Abs(n) == IF n < 0 THEN 0 - n ELSE n

\* placeSpruceTree, body of the innermost leaf loop
SpruceLeafCell(s, lx, y, lz, trunkHeight, ly, radius, dx, dz) ==
  IF Abs(dx) = radius /\ Abs(dz) = radius /\ radius > 1 THEN s
  ELSE IF dx = 0 /\ dz = 0 /\ ly < y + trunkHeight THEN s
  ELSE SetIfInBounds(s, "placeSpruceTree", lx + dx, ly, lz + dz, "LEAVES_SPRUCE")

\* placeSpruceTree's leaf loops over one layer ly: dx, dz = -radius .. radius
SpruceLayer(s, lx, y, lz, trunkHeight, ly, radius) ==
  For(s, LAMBDA sX, dx :
    For(sX, LAMBDA sZ, dz :
      SpruceLeafCell(sZ, lx, y, lz, trunkHeight, ly, radius, dx, dz),
      0 - radius, radius + 1),
    0 - radius, radius + 1)

\* placeSpruceTree, once trunkHeight has been drawn: the trunk, the leaf
\* layers ly = leafBottomY .. leafTopY with leafBottomY = y + 2, leafTopY =
\* y + trunkHeight and totalLeafLayers = trunkHeight - 1, and the top leaf.
SpruceOfHeight(s, lx, y, lz, trunkHeight) ==
  SetIfInBounds(
    For(Trunk(s, lx, y, lz, "WOOD_SPRUCE", trunkHeight), LAMBDA sY, ly :
      SpruceLayer(sY, lx, y, lz, trunkHeight, ly,
                  SpruceRadius(ly - (y + 2), trunkHeight - 1)),
      y + 2, y + trunkHeight + 1),
    "placeSpruceTree", lx, y + trunkHeight + 1, lz, "LEAVES_SPRUCE")

PlaceSpruceTree(s, lx, y, lz) ==
  SpruceOfHeight(Drawn(s), lx, y, lz, 6 + FloorMul(Mulberry32(s.rng).out, 4))

GenerateTree(s, localX, y, localZ, treeType) ==
  CASE treeType = "OAK"    -> PlaceOakTree(s, localX, y, localZ)
    [] treeType = "BIRCH"  -> PlaceBirchTree(s, localX, y, localZ)
    [] treeType = "SPRUCE" -> PlaceSpruceTree(s, localX, y, localZ)
    [] treeType = "JUNGLE" -> PlaceJungleTree(s, localX, y, localZ)
    [] OTHER               -> s

\* shouldPlaceTree returns treeType ("NONE" for null) after `calls` calls
\* of rng.
Chosen(treeType, calls) == [treeType |-> treeType, calls |-> calls]

\* shouldPlaceTree, for the outputs roll and pick of the stream's next two
\* calls; the second is made for a FOREST hit only.
ShouldPlaceTree(biome, roll, pick) ==
  CASE biome = "FOREST" ->
         IF Below(roll, 8, 100)
         THEN Chosen(IF Below(pick, 7, 10) THEN "OAK" ELSE "BIRCH", 2)
         ELSE Chosen("NONE", 1)
    [] biome = "PLAINS" ->
         IF Below(roll, 1, 100) THEN Chosen("OAK", 1) ELSE Chosen("NONE", 1)
    [] biome = "TAIGA" ->
         IF Below(roll, 6, 100) THEN Chosen("SPRUCE", 1) ELSE Chosen("NONE", 1)
    [] biome = "MOUNTAINS" ->
         IF Below(roll, 2, 100) THEN Chosen("SPRUCE", 1) ELSE Chosen("NONE", 1)
    [] biome = "TUNDRA" ->
         IF Below(roll, 5, 1000) THEN Chosen("SPRUCE", 1) ELSE Chosen("NONE", 1)
    [] biome = "JUNGLE" ->
         IF Below(roll, 10, 100) THEN Chosen("JUNGLE", 1) ELSE Chosen("NONE", 1)
    [] biome = "SWAMP" ->
         IF Below(roll, 3, 100) THEN Chosen("OAK", 1) ELSE Chosen("NONE", 1)
    [] OTHER -> Chosen("NONE", 1)

\* placeTrees without its test of the surface block.
TreeColumnWithAnySurface(s, lx, lz, surfaceY, treeInfo, d) ==
  IF treeInfo.treeType = "NONE" THEN [s EXCEPT !.rng = d[treeInfo.calls].seed]
  ELSE GenerateTree([s EXCEPT !.rng = d[treeInfo.calls].seed], lx, surfaceY + 1, lz,
                    treeInfo.treeType)

\* placeTrees, body of the loop over the columns from shouldPlaceTree's
\* answer on; d holds the stream's next two calls.
TreeColumnWith(s, lx, lz, surfaceY, treeInfo, d) ==
  IF treeInfo.treeType = "NONE" THEN [s EXCEPT !.rng = d[treeInfo.calls].seed]
  ELSE IF GetBlock(s.c, lx, surfaceY, lz) \notin {"GRASS", "DIRT", "SNOW"}
  THEN [s EXCEPT !.rng = d[treeInfo.calls].seed]
  ELSE GenerateTree([s EXCEPT !.rng = d[treeInfo.calls].seed], lx, surfaceY + 1, lz,
                    treeInfo.treeType)

\* placeTrees, body of the loop over the columns
TreeColumnIn(s, biome, lx, lz, surfaceY) ==
  IF surfaceY < seaLevel /\ biome = "OCEAN" THEN s
  ELSE TreeColumnWith(s, lx, lz, surfaceY,
                      ShouldPlaceTree(biome, Draws(s.rng, 2)[1].out,
                                      Draws(s.rng, 2)[2].out),
                      Draws(s.rng, 2))

TreeColumn(s, p, lx, lz) ==
  TreeColumnIn(s, ProfileColumn(p, lx, lz).biome, lx, lz, Heightmap(p, lx, lz))

TreeLocals(seed, worldX, worldZ, p) ==
  [pc |-> "start", seed |-> seed, worldX |-> worldX, worldZ |-> worldZ,
   profile |-> p, rng |-> <<0, 0>>, lx |-> 0]

\* placeTrees up to its loops: the chunk's random stream.
PlaceTreesBegin ==
  /\ tree.pc = "start"
  /\ tree' = [tree EXCEPT !.pc = "rows",
                          !.rng = TreeChunkRng(tree.seed, tree.worldX, tree.worldZ)]
  /\ writes' = << >>
  /\ UNCHANGED chunk

\* One iteration of placeTrees' outer loop: the 16 columns of row lx.
PlaceTreesRow ==
  /\ tree.pc = "rows"
  /\ tree.lx < CHUNK_SIZE
  /\ \E s \in {For(Pass(chunk, tree.rng), LAMBDA sZ, lz :
                   TreeColumn(sZ, tree.profile, tree.lx, lz),
                   0, CHUNK_SIZE)} :
       /\ chunk' = s.c
       /\ writes' = s.w
       /\ tree' = [tree EXCEPT !.rng = s.rng, !.lx = @ + 1]

PlaceTreesReturn ==
  /\ tree.pc = "rows"
  /\ tree.lx >= CHUNK_SIZE
  /\ tree' = [tree EXCEPT !.pc = "done"]
  /\ writes' = << >>
  /\ UNCHANGED chunk

\* World seeds and chunk coordinates <<seed, cx, cz>> placeTrees is run on.
TreeCases == << <<0, 0, 0>>, <<1, -3, 5>>, <<5, 0, 0>>, <<3, 2, -1>> >>

NumTreeCases == 2

\* generateChunk's call of placeTrees on a chunk that buildTerrain has filled.
InitTree ==
  \E i \in 1 .. Min(NumTreeCases, Len(TreeCases)), p \in {"taiga", "forest", "jungle", "ridge", "plains"} :
    /\ chunk = BuildTerrain(EmptyChunk, p)
    /\ writes = << >>
    /\ tree = TreeLocals(TreeCases[i][1], TreeCases[i][2] * CHUNK_SIZE,
                         TreeCases[i][3] * CHUNK_SIZE, p)

----------------------------------------------------------------------------
(* CaveGenerator.carve and OreGenerator.generate.  The two classes are not *)
(* among the sources; the passes are modelled from the specification: 3D   *)
(* noise removes stone into air, sparing bedrock and water, and ore veins  *)
(* replace remaining stone.  The noise is an input, given by the profile.  *)

\* carve: the cells where the profile's cave noise passes the threshold lose
\* their stone.
Carve(c, p) ==
  [x \in Coords |-> [z \in Coords |-> [y \in 0 .. (CHUNK_HEIGHT - 1) |->
     IF p = "hills" /\ y \in 20 .. 22 /\ z \in 7 .. 9 /\ c[x][z][y] = "STONE"
     THEN "AIR" ELSE c[x][z][y]]]]

\* The ore a vein lays at the cell, "NONE" outside the veins.
OreField(p, x, y, z) ==
  CASE p = "hills" /\ y = 15 /\ x \in 4 .. 5 /\ z \in 4 .. 5 -> "IRON_ORE"
    [] p = "hills" /\ y = 23 /\ x \in 6 .. 7 /\ z = 8        -> "COAL_ORE"
    [] OTHER                                                 -> "NONE"

OreGenerate(c, p) ==
  [x \in Coords |-> [z \in Coords |-> [y \in 0 .. (CHUNK_HEIGHT - 1) |->
     IF OreField(p, x, y, z) # "NONE" /\ c[x][z][y] = "STONE"
     THEN OreField(p, x, y, z) ELSE c[x][z][y]]]]

----------------------------------------------------------------------------
(* StructureGenerator                                                      *)

\* The heightmap buildTerrain returns.
HeightmapOf(p) == [lx \in Coords |-> [lz \in Coords |-> Heightmap(p, lx, lz)]]

\* biomeMap.getBiome(worldX + lx, worldZ + lz) per column: the base biome,
\* which knows no mountain override.  The mountain regions of the profiles
\* "ridge" and "border" lie over taiga and over plains and desert.
BiomeMapOf(p) ==
  [lx \in Coords |-> [lz \in Coords |->
     IF p = "ridge" THEN "TAIGA"
     ELSE IF p = "border" THEN (IF lx < 8 THEN "PLAINS" ELSE "DESERT")
     ELSE ProfileColumn(p, lx, lz).biome]]

\* chunkRng of a generator that counts its generate calls into the seed.
StructChunkRngCounting(seed, worldX, worldZ) ==
  LET h1 == Xor32(WordOf(seed + gen.call), MulSmall32(worldX, WordOf(374761393)))
      h2 == Xor32(h1, MulSmall32(worldZ, WordOf(668265263)))
  IN  Add32(Imul32(Xor32(h2, Shr32(h2, 13)), WordOf(1274126177)),
            <<42419, 49873>>)

\* chunkRng: the seed of the decoration stream
StructChunkRng(seed, worldX, worldZ) ==
  LET h1 == Xor32(WordOf(seed), MulSmall32(worldX, WordOf(374761393)))
      h2 == Xor32(h1, MulSmall32(worldZ, WordOf(668265263)))
  IN  Add32(Imul32(Xor32(h2, Shr32(h2, 13)), WordOf(1274126177)),
            <<42419, 49873>>)                                  \* 0xa5b3c2d1

\* structureRng: the seed of the structure stream
StructureRng(seed, worldX, worldZ) ==
  LET h0 == Add32(WordOf(seed), WordOf(2134547485))            \* 0x7f3a9c1d
      h1 == Xor32(h0, MulSmall32(worldX, WordOf(597399067)))
      h2 == Xor32(h1, MulSmall32(worldZ, WordOf(824521439)))
  IN  Add32(Imul32(Xor32(h2, Shr32(h2, 13)), WordOf(1946318589)),
            <<47073, 20835>>)                                  \* 0xb7e15163

\* The columns isFlatArea's loops visit.
Area(startX, startZ, width, depth) ==
  (startX .. (startX + width - 1)) \X (startZ .. (startZ + depth - 1))

OutOfChunk(x, z) == x < 0 \/ x >= CHUNK_SIZE \/ z < 0 \/ z >= CHUNK_SIZE

\* isFlatArea without the comparison of line 520.
IsFlatAreaAnySpread(heightmap, startX, startZ, width, depth, maxVariation) ==
  ~(\E k \in Area(startX, startZ, width, depth) : OutOfChunk(k[1], k[2]))

IsFlatArea(heightmap, startX, startZ, width, depth, maxVariation) ==
  IF \E k \in Area(startX, startZ, width, depth) : OutOfChunk(k[1], k[2])
  THEN FALSE
  ELSE LET heights == {heightmap[k[1]][k[2]] : k \in Area(startX, startZ, width, depth)}
           maxH == CHOOSE m \in heights : \A n \in heights : n <= m
           minH == CHOOSE m \in heights : \A n \in heights : m <= n
       IN  maxH - minH <= maxVariation

\* What a tryPlace call leaves: the chunk, the calls it made and the stream
\* (s), its return value (placed) and the position it drew.
Attempt(s, kind, placed, sx, sy, sz) ==
  [s |-> s, kind |-> kind, placed |-> placed, sx |-> sx, sy |-> sy, sz |-> sz]

\* inner, lines 166 and 177, with W = 5
WellInner(sx, sz, x, z) == x > sx /\ x < sx + 5 - 1 /\ z > sz /\ z < sz + 5 - 1

\* tryPlaceDesertWell, lines 156-161: the basin
WellBasin(s, sx, sz, baseY) ==
  For(s, LAMBDA sX, x :
    For(sX, LAMBDA sZ, z :
      Put(Put(sZ, "tryPlaceDesertWell", x, baseY - 1, z, "SAND_STONE"),
          "tryPlaceDesertWell", x, baseY, z, "WATER"),
      sz + 1, sz + 4),
    sx + 1, sx + 4)

\* lines 164-172: the ring at surface level
WellRing(s, sx, sz, baseY) ==
  For(s, LAMBDA sX, x :
    For(sX, LAMBDA sZ, z :
      IF ~WellInner(sx, sz, x, z)
      THEN Put(sZ, "tryPlaceDesertWell", x, baseY, z, "SAND_STONE")
      ELSE sZ,
      sz, sz + 5),
    sx, sx + 5)

\* The rim with the x loop running on for a chunk's width.
WellRimOverEdge(s, sx, sz, baseY) ==
  For(s, LAMBDA sX, x :
    For(sX, LAMBDA sZ, z :
      Put(IF ~WellInner(sx, sz, x, z)
          THEN Put(sZ, "tryPlaceDesertWell", x, baseY + 1, z, "SAND_STONE")
          ELSE sZ,
          "tryPlaceDesertWell", x, baseY + 2, z, "AIR"),
      sz, sz + 5),
    sx, sx + CHUNK_SIZE)

\* lines 175-184: the rim and the cleared layer above it
WellRim(s, sx, sz, baseY) ==
  For(s, LAMBDA sX, x :
    For(sX, LAMBDA sZ, z :
      Put(IF ~WellInner(sx, sz, x, z)
          THEN Put(sZ, "tryPlaceDesertWell", x, baseY + 1, z, "SAND_STONE")
          ELSE sZ,
          "tryPlaceDesertWell", x, baseY + 2, z, "AIR"),
      sz, sz + 5),
    sx, sx + 5)

\* tryPlaceDesertWell from line 151 on; baseY is heightmap[sx + 2][sz + 2]
WellAt(s, heightmap, sx, sz) ==
  IF ~IsFlatArea(heightmap, sx, sz, 5, 5, 1)
  THEN Attempt(s, "tryPlaceDesertWell", FALSE, sx, 0, sz)
  ELSE Attempt(WellRim(WellRing(WellBasin(s, sx, sz, heightmap[sx + 2][sz + 2]),
                                sx, sz, heightmap[sx + 2][sz + 2]),
                       sx, sz, heightmap[sx + 2][sz + 2]),
               "tryPlaceDesertWell", TRUE, sx, heightmap[sx + 2][sz + 2], sz)

\* s after n calls of its stream
After(s, n) == [s EXCEPT !.rng = Draws(s.rng, n)[n].seed]

TryPlaceDesertWell(s, heightmap) ==
  WellAt(After(s, 2), heightmap,
         3 + FloorMul(Draws(s.rng, 2)[1].out, CHUNK_SIZE - 5 - 6),
         3 + FloorMul(Draws(s.rng, 2)[2].out, CHUNK_SIZE - 5 - 6))

\* The block tryPlaceCabin sets at (x, baseY + dy, z): the floor (dy = 0,
\* line 220), the walls (dy = 1 .. 3, lines 230-258), the roof (dy = 4,
\* line 266) and the cleared layer (dy = 5, line 273).
CabinBlock(sx, sz, x, z, dy) ==
  IF dy = 0 THEN "COBBLESTONE"
  ELSE IF dy = 4 THEN "PLANKS_OAK"
  ELSE IF dy = 5 THEN "AIR"
  ELSE IF (x = sx \/ x = sx + 7 - 1) /\ (z = sz \/ z = sz + 5 - 1) THEN "WOOD_OAK"
  ELSE IF x = sx \/ x = sx + 7 - 1 \/ z = sz \/ z = sz + 5 - 1
  THEN IF z = sz + 5 - 1 /\ x = sx + 3 /\ dy <= 2 THEN "AIR"
       ELSE IF dy = 2 /\ (x = sx \/ x = sx + 7 - 1) /\ z > sz /\ z < sz + 5 - 1
       THEN "GLASS"
       ELSE "PLANKS_OAK"
  ELSE "AIR"

\* tryPlaceCabin from line 217 on: the loops of lines 218-275 in their order
\* (floor, walls, roof, clearing), then torch, crafting table and furnace
\* (lines 279-283)
BuildCabin(s, sx, sz, baseY) ==
  Put(Put(Put(
    For(s, LAMBDA sY, dy :
      For(sY, LAMBDA sX, x :
        For(sX, LAMBDA sZ, z :
          Put(sZ, "tryPlaceCabin", x, baseY + dy, z, CabinBlock(sx, sz, x, z, dy)),
          sz, sz + 5),
        sx, sx + 7),
      0, 6),
    "tryPlaceCabin", sx + 3, baseY + 2, sz + 1, "TORCH"),
    "tryPlaceCabin", sx + 1, baseY + 1, sz + 1, "CRAFTING_TABLE"),
    "tryPlaceCabin", sx + 2, baseY + 1, sz + 1, "FURNACE")

\* tryPlaceCabin from line 213 on; baseY is heightmap[sx + 3][sz + 2]
CabinAt(s, heightmap, sx, sz) ==
  IF ~IsFlatArea(heightmap, sx, sz, 7, 5, 2)
  THEN Attempt(s, "tryPlaceCabin", FALSE, sx, 0, sz)
  ELSE Attempt(BuildCabin(s, sx, sz, heightmap[sx + 3][sz + 2]),
               "tryPlaceCabin", TRUE, sx, heightmap[sx + 3][sz + 2], sz)

TryPlaceCabin(s, heightmap) ==
  CabinAt(After(s, 2), heightmap,
          2 + FloorMul(Draws(s.rng, 2)[1].out, CHUNK_SIZE - 7 - 4),
          2 + FloorMul(Draws(s.rng, 2)[2].out, CHUNK_SIZE - 5 - 4))

\* buildDungeon: the shell and the hollow (lines 332-350), then the four
\* torches (lines 353-360), midX = sx + floor(W / 2), torchY = sy + 2
BuildDungeon(s, sx, sy, sz, W, H) ==
  Put(Put(Put(Put(
    For(s, LAMBDA sX, x :
      For(sX, LAMBDA sZ, z :
        For(sZ, LAMBDA sY, dy :
          IF sy + dy >= CHUNK_HEIGHT THEN sY
          ELSE IF dy = 0 \/ dy = H - 1
                  \/ x = sx \/ x = sx + W - 1 \/ z = sz \/ z = sz + W - 1
          THEN Put(sY, "buildDungeon", x, sy + dy, z, "COBBLESTONE")
          ELSE Put(sY, "buildDungeon", x, sy + dy, z, "AIR"),
          0, H),
        sz, sz + W),
      sx, sx + W),
    "buildDungeon", sx + (W \div 2), sy + 2, sz + 1, "TORCH"),
    "buildDungeon", sx + (W \div 2), sy + 2, sz + W - 2, "TORCH"),
    "buildDungeon", sx + 1, sy + 2, sz + (W \div 2), "TORCH"),
    "buildDungeon", sx + W - 2, sy + 2, sz + (W \div 2), "TORCH")

\* tryPlaceDungeon's test of a candidate with the second getBlock left out.
DungeonSiteCentreOnly(c, sx, sy, sz) ==
  GetBlock(c, sx + 3, sy + 2, sz + 3) = "STONE"

\* tryPlaceDungeon, lines 313 and 315, with H = 5: neither `continue` is taken
DungeonSite(c, sx, sy, sz) ==
  /\ GetBlock(c, sx + 3, sy + 2, sz + 3) = "STONE"
  /\ GetBlock(c, sx + 3, sy + 5, sz + 3) = "STONE"

\* One iteration of tryPlaceDungeon's loop from line 313 on
DungeonAt(s, sx, sy, sz) ==
  IF DungeonSite(s.c, sx, sy, sz)
  THEN Attempt(BuildDungeon(s, sx, sy, sz, 7, 5), "tryPlaceDungeon", TRUE, sx, sy, sz)
  ELSE Attempt(s, "tryPlaceDungeon", FALSE, sx, sy, sz)

\* One iteration of tryPlaceDungeon's loop: sx, sz and sy are drawn in
\* this order
TryDungeonOnce(s) ==
  DungeonAt(After(s, 3),
            2 + FloorMul(Draws(s.rng, 3)[1].out, CHUNK_SIZE - 7 - 2),
            12 + FloorMul(Draws(s.rng, 3)[3].out, 28),
            2 + FloorMul(Draws(s.rng, 3)[2].out, CHUNK_SIZE - 7 - 2))

\* decoratePlains, decorateForest, decorateJungle: tall grass below the
\* first threshold, a flower of a drawn colour below the second; the
\* thresholds in hundredths.  d holds the stream's next two calls.
GrassOrFlower(s, by, lx, y, lz, d, grass, flower, red) ==
  IF Below(d[1].out, grass, 100)
  THEN Put([s EXCEPT !.rng = d[1].seed], by, lx, y, lz, "TALL_GRASS")
  ELSE IF Below(d[1].out, flower, 100)
  THEN Put([s EXCEPT !.rng = d[2].seed], by, lx, y, lz,
           IF Below(d[2].out, red, 100) THEN "FLOWER_RED" ELSE "FLOWER_YELLOW")
  ELSE [s EXCEPT !.rng = d[1].seed]

\* decorateTaiga, decorateTundra and, with two thresholds, decorateSwamp:
\* one call of rng, one block at most.
OneRoll(s, by, lx, y, lz, d, first, block, second, other) ==
  IF Below(d[1].out, first, 100)
  THEN Put([s EXCEPT !.rng = d[1].seed], by, lx, y, lz, block)
  ELSE IF Below(d[1].out, second, 100)
  THEN Put([s EXCEPT !.rng = d[1].seed], by, lx, y, lz, other)
  ELSE [s EXCEPT !.rng = d[1].seed]

HasClearNeighbours(c, lx, y, lz) ==
  \A n \in {<<lx - 1, lz>>, <<lx + 1, lz>>, <<lx, lz - 1>>, <<lx, lz + 1>>} :
    OutOfChunk(n[1], n[2]) \/ GetBlock(c, n[1], y, n[2]) = "AIR"

\* decorateDesert; the cactus loop (lines 412-415) breaks at the first
\* y + dy >= 256, which holds for every later dy as well
DecorateDesert(s, lx, y, lz, d) ==
  IF ~Below(d[1].out, 2, 100) THEN [s EXCEPT !.rng = d[1].seed]
  ELSE IF ~HasClearNeighbours(s.c, lx, y, lz) THEN [s EXCEPT !.rng = d[1].seed]
  ELSE For([s EXCEPT !.rng = d[2].seed], LAMBDA sY, dy :
         IF y + dy >= 256 THEN sY
         ELSE Put(sY, "decorateDesert", lx, y + dy, lz, "CACTUS"),
         0, 2 + FloorMul(d[2].out, 2))

\* generate, lines 68-92: the switch on the column's biome
Decorate(s, biome, lx, y, lz, d) ==
  CASE biome = "PLAINS" -> GrassOrFlower(s, "decoratePlains", lx, y, lz, d, 30, 33, 50)
    [] biome = "FOREST" -> GrassOrFlower(s, "decorateForest", lx, y, lz, d, 35, 43, 50)
    [] biome = "DESERT" -> DecorateDesert(s, lx, y, lz, d)
    [] biome = "TAIGA"  -> OneRoll(s, "decorateTaiga", lx, y, lz, d, 15, "TALL_GRASS",
                                   15, "TALL_GRASS")
    [] biome = "TUNDRA" -> OneRoll(s, "decorateTundra", lx, y, lz, d, 2, "FLOWER_YELLOW",
                                   2, "FLOWER_YELLOW")
    [] biome = "JUNGLE" -> GrassOrFlower(s, "decorateJungle", lx, y, lz, d, 40, 50, 60)
    [] biome = "SWAMP"  -> OneRoll(s, "decorateSwamp", lx, y, lz, d, 25, "TALL_GRASS",
                                   28, "FLOWER_RED")
    [] OTHER            -> s

\* generate, lines 64-66, placeY = surfaceY + 1
DecorateAt(s, biome, lx, placeY, lz) ==
  IF placeY >= 256 THEN s
  ELSE IF GetBlock(s.c, lx, placeY, lz) # "AIR" THEN s
  ELSE Decorate(s, biome, lx, placeY, lz, Draws(s.rng, 2))

\* The large structures among the callers of the setBlock calls w.
Builders(w) ==
  {w[i].by : i \in 1 .. Len(w)} \cap {"tryPlaceDesertWell", "tryPlaceCabin", "buildDungeon"}

\* placeStructures without the returns of lines 116 and 121, and
\* tryPlaceDungeon without the return of line 318.
AfterAttemptFallThrough(placed, next) == next

\* `if (tryPlace...) return;` (lines 116, 121) and `return true` (line 318)
AfterAttempt(placed, next) == IF placed THEN "decorate" ELSE next

\* The locals of generate and placeStructures before line 51.  tried lists
\* the tryPlace calls made (for the dungeon, the loop iterations), built the
\* large structures that have set a block.
StructLocals(seed, worldX, worldZ, heightmap, biomeMap) ==
  [pc |-> "start", seed |-> seed, worldX |-> worldX, worldZ |-> worldZ,
   heightmap |-> heightmap, biomeMap |-> biomeMap,
   rng |-> <<0, 0>>, structRng |-> <<0, 0>>, centerBiome |-> "NONE",
   attempt |-> 0, lx |-> 0, tried |-> << >>, built |-> {}]

\* A tryPlace call (one iteration of tryPlaceDungeon's loop) has returned a:
\* after a placement the structure phase is over, otherwise it goes on
\* with next.
StructTried(a, next, attempt) ==
  /\ chunk' = a.s.c
  /\ writes' = a.s.w
  /\ struct' = [struct EXCEPT
       !.pc = AfterAttempt(a.placed, next), !.structRng = a.s.rng,
       !.attempt = attempt,
       !.tried = Append(@, [kind |-> a.kind, placed |-> a.placed,
                            sx |-> a.sx, sy |-> a.sy, sz |-> a.sz]),
       !.built = @ \cup Builders(a.s.w)]

\* placeStructures drawing its rolls from the decoration stream.
StructGoesOnOneStream(pc, structRng) ==
  /\ struct' = [struct EXCEPT !.pc = pc, !.structRng = structRng, !.rng = structRng]
  /\ writes' = << >>
  /\ UNCHANGED chunk

\* placeStructures goes on without a tryPlace call.
StructGoesOn(pc, structRng) ==
  /\ struct' = [struct EXCEPT !.pc = pc, !.structRng = structRng]
  /\ writes' = << >>
  /\ UNCHANGED chunk

\* generate, line 51, and placeStructures, lines 110-112
StructBegin ==
  /\ struct.pc = "start"
  /\ struct' = [struct EXCEPT
       !.pc = "well",
       !.rng = StructChunkRng(struct.seed, struct.worldX, struct.worldZ),
       !.structRng = StructureRng(struct.seed, struct.worldX, struct.worldZ),
       !.centerBiome = struct.biomeMap[8][8]]
  /\ writes' = << >>
  /\ UNCHANGED chunk

\* placeStructures, lines 115-117; r is the call structRng()
StructWell ==
  /\ struct.pc = "well"
  /\ IF struct.centerBiome = "DESERT"
     THEN \E r \in {Mulberry32(struct.structRng)} :
            IF Below(r.out, 3, 100)
            THEN StructTried(TryPlaceDesertWell(Pass(chunk, r.seed), struct.heightmap),
                             "cabin", 0)
            ELSE StructGoesOn("cabin", r.seed)
     ELSE StructGoesOn("cabin", struct.structRng)

\* placeStructures, lines 120-122
StructCabin ==
  /\ struct.pc = "cabin"
  /\ IF struct.centerBiome \in {"PLAINS", "FOREST"}
     THEN \E r \in {Mulberry32(struct.structRng)} :
            IF Below(r.out, 2, 100)
            THEN StructTried(TryPlaceCabin(Pass(chunk, r.seed), struct.heightmap),
                             "dungeon", 0)
            ELSE StructGoesOn("dungeon", r.seed)
     ELSE StructGoesOn("dungeon", struct.structRng)

\* placeStructures, line 125
StructDungeon ==
  /\ struct.pc = "dungeon"
  /\ \E r \in {Mulberry32(struct.structRng)} :
       StructGoesOn(IF Below(r.out, 5, 100) THEN "attempt" ELSE "decorate", r.seed)

\* One iteration of tryPlaceDungeon's loop, lines 307-319
StructDungeonAttempt ==
  /\ struct.pc = "attempt"
  /\ struct.attempt < 5
  /\ StructTried(TryDungeonOnce(Pass(chunk, struct.structRng)),
                 "attempt", struct.attempt + 1)

\* tryPlaceDungeon, line 321: no candidate was fit
StructDungeonGivesUp ==
  /\ struct.pc = "attempt"
  /\ struct.attempt >= 5
  /\ StructGoesOn("decorate", struct.structRng)

\* One iteration of generate's outer loop, lines 57-94: the columns of row lx
StructDecorateRow ==
  /\ struct.pc = "decorate"
  /\ struct.lx < CHUNK_SIZE
  /\ \E s \in {For(Pass(chunk, struct.rng), LAMBDA sZ, lz :
                   DecorateAt(sZ, struct.biomeMap[struct.lx][lz], struct.lx,
                              struct.heightmap[struct.lx][lz] + 1, lz),
                   0, CHUNK_SIZE)} :
       /\ chunk' = s.c
       /\ writes' = s.w
       /\ struct' = [struct EXCEPT !.rng = s.rng, !.lx = @ + 1]

\* generate's outer loop from row lx on, lines 57-94
StructDecorateRest ==
  /\ struct.pc = "decorate"
  /\ struct.lx < CHUNK_SIZE
  /\ \E s \in {For(Pass(chunk, struct.rng), LAMBDA sX, lx :
                   For(sX, LAMBDA sZ, lz :
                     DecorateAt(sZ, struct.biomeMap[lx][lz], lx,
                                struct.heightmap[lx][lz] + 1, lz),
                     0, CHUNK_SIZE),
                   struct.lx, CHUNK_SIZE)} :
       /\ chunk' = s.c
       /\ writes' = s.w
       /\ struct' = [struct EXCEPT !.rng = s.rng, !.lx = CHUNK_SIZE]

StructReturn ==
  /\ struct.pc = "decorate"
  /\ struct.lx >= CHUNK_SIZE
  /\ struct' = [struct EXCEPT !.pc = "done"]
  /\ writes' = << >>
  /\ UNCHANGED chunk

\* World seeds, chunk coordinates and profiles <<seed, cx, cz, profile>>
\* StructureGenerator.generate is run on.  The profiles "summit", "mesa" and
\* "plateau" stand for heightmaps handed to generate at the upper end of
\* the range the clamp of buildTerrain leaves, line 190.
StructCases ==
  << <<637, 0, 0, "dunes">>, <<99, 0, 0, "dunes">>, <<419, 0, 0, "dunes">>,
     <<95, 2, -1, "hills">>, <<419, 0, 0, "hills">>, <<1608, 0, 0, "coast">>,
     <<150, 2, -1, "coast">>, <<99, 0, 0, "summit">>, <<99, 0, 0, "mesa">>,
     <<95, 2, -1, "plateau">>, <<36, 0, 0, "dunes">>, <<13, -3, 5, "hills">>,
     <<0, 0, 0, "plains">> >>

NumStructCases == 11

\* generateChunk's call of structureGenerator.generate on a chunk that
\* buildTerrain has filled, the caves have carved and the ores have veined
\* (no mineshaft spawned, no tree placed).
InitStruct ==
  \E i \in 1 .. Min(NumStructCases, Len(StructCases)) :
    /\ chunk = OreGenerate(Carve(BuildTerrain(EmptyChunk, StructCases[i][4]),
                                 StructCases[i][4]), StructCases[i][4])
    /\ writes = << >>
    /\ struct = StructLocals(StructCases[i][1], StructCases[i][2] * CHUNK_SIZE,
                             StructCases[i][3] * CHUNK_SIZE,
                             HeightmapOf(StructCases[i][4]),
                             BiomeMapOf(StructCases[i][4]))

----------------------------------------------------------------------------
(* TerrainGenerator.generateChunk, called twice on chunks of the same      *)
(* coordinates by generators of the same seed.                             *)

\* generateChunk, line 128
GenBuildTerrain ==
  /\ gen.pc = "buildTerrain"
  /\ chunk' = BuildTerrain(chunk, gen.profile)
  /\ writes' = << >>
  /\ gen' = [gen EXCEPT !.pc = "carve"]
  /\ UNCHANGED <<mine, tree, struct>>

\* generateChunk with the mineshaft generated right after the caves, the
\* ore pass left out.
GenCarveThenMineshaft ==
  /\ gen.pc = "carve"
  /\ chunk' = Carve(chunk, gen.profile)
  /\ writes' = << >>
  /\ gen' = [gen EXCEPT !.pc = "mineshaft"]
  /\ mine' = MineLocals(gen.seed, gen.cx * CHUNK_SIZE, gen.cz * CHUNK_SIZE)
  /\ UNCHANGED <<tree, struct>>

\* generateChunk, line 131
GenCarve ==
  /\ gen.pc = "carve"
  /\ chunk' = Carve(chunk, gen.profile)
  /\ writes' = << >>
  /\ gen' = [gen EXCEPT !.pc = "ores"]
  /\ UNCHANGED <<mine, tree, struct>>

\* generateChunk, line 134, and the call of line 137
GenOres ==
  /\ gen.pc = "ores"
  /\ chunk' = OreGenerate(chunk, gen.profile)
  /\ writes' = << >>
  /\ gen' = [gen EXCEPT !.pc = "mineshaft"]
  /\ mine' = MineLocals(gen.seed, gen.cx * CHUNK_SIZE, gen.cz * CHUNK_SIZE)
  /\ UNCHANGED <<tree, struct>>

\* mineshaftGenerator.generate has returned: placeTrees (line 140), all of
\* its rows, and the call of line 143
GenPlaceTrees ==
  /\ gen.pc = "mineshaft"
  /\ mine.pc = "done"
  /\ \E s \in {For(Pass(chunk, TreeChunkRng(gen.seed, gen.cx * CHUNK_SIZE,
                                             gen.cz * CHUNK_SIZE)),
                   LAMBDA sX, lx :
                     For(sX, LAMBDA sZ, lz : TreeColumn(sZ, gen.profile, lx, lz),
                         0, CHUNK_SIZE),
                   0, CHUNK_SIZE)} :
       /\ chunk' = s.c
       /\ writes' = s.w
  /\ gen' = [gen EXCEPT !.pc = "structures"]
  /\ mine' = [pc |-> "idle"]
  /\ struct' = StructLocals(gen.seed, gen.cx * CHUNK_SIZE, gen.cz * CHUNK_SIZE,
                            HeightmapOf(gen.profile), BiomeMapOf(gen.profile))
  /\ UNCHANGED tree

\* The first generateChunk returns; the second is called on a fresh chunk,
\* on the chunk the first has generated, or on a chunk that holds WATER in
\* every cell.
GenAgain ==
  /\ gen.pc = "structures"
  /\ struct.pc = "done"
  /\ gen.call = 1
  /\ \E onto \in {"fresh", "generated", "flooded"} :
       /\ gen' = [gen EXCEPT !.pc = "buildTerrain", !.call = 2, !.first = chunk,
                             !.onto = onto]
       /\ chunk' = CASE onto = "fresh" -> EmptyChunk
                      [] onto = "generated" -> chunk
                      [] onto = "flooded" ->
                           [lx \in Coords |-> [lz \in Coords |->
                              [y \in 0 .. (CHUNK_HEIGHT - 1) |-> "WATER"]]]
  /\ struct' = [pc |-> "idle"]
  /\ writes' = << >>
  /\ UNCHANGED <<mine, tree>>

\* The second generateChunk returns.
GenReturn ==
  /\ gen.pc = "structures"
  /\ struct.pc = "done"
  /\ gen.call = 2
  /\ gen' = [gen EXCEPT !.pc = "done"]
  /\ writes' = << >>
  /\ UNCHANGED <<chunk, mine, tree, struct>>

\* The generator's seed, the chunk's coordinates and the noise (profile)
\* <<seed, cx, cz, profile>> generateChunk is run on; gen.call counts the
\* calls, gen.first keeps the grid the first has left, gen.onto tells what
\* the chunk held when the call began.
GenCases ==
  << <<3364, -3, 5, "plains">>, <<150, 2, -1, "coast">>, <<1608, 0, 0, "coast">>,
     <<99, 0, 0, "dunes">>, <<95, 2, -1, "hills">>, <<248, -3, 5, "border">>,
     <<20423, -3, 5, "plains">> >>

NumGenCases == 6

InitGen ==
  \E i \in 1 .. Min(NumGenCases, Len(GenCases)) :
    /\ chunk = EmptyChunk
    /\ writes = << >>
    /\ gen = [pc |-> "buildTerrain", seed |-> GenCases[i][1], cx |-> GenCases[i][2],
              cz |-> GenCases[i][3], profile |-> GenCases[i][4],
              call |-> 1, first |-> << >>, onto |-> "fresh"]

----------------------------------------------------------------------------
(* BiomeMap.getBiome.  The two noise fields are inputs.  Temperature and   *)
(* moisture, both in [0, 1], are counted in hundredths, the unit of every  *)
(* threshold of the decision chain.                                        *)

\* The largest value of temperature and of moisture, in hundredths.
MaxHundredths == 100

\* getBiome without the return of line 151.
GetBiomeNoLastReturn(temp, moist) ==
  IF moist > 78 THEN (IF moist > 85 THEN "OCEAN" ELSE "BEACH")
  ELSE IF temp < 20 THEN "TUNDRA"
  ELSE IF temp < 45 THEN (IF moist > 50 THEN "TAIGA" ELSE "TUNDRA")
  ELSE IF temp < 70
  THEN (IF moist > 68 THEN "SWAMP"
        ELSE IF moist > 55 THEN "FOREST"
        ELSE IF moist > 30 THEN "PLAINS"
        ELSE "PLAINS")
  ELSE IF moist > 55 THEN "JUNGLE"
  ELSE IF moist > 35 THEN "PLAINS"
  ELSE "undefined"

\* getBiome, lines 109-151, for temp = getTemperature(worldX, worldZ) and
\* moist = getMoisture(worldX, worldZ)
GetBiome(temp, moist) ==
  IF moist > 78 THEN (IF moist > 85 THEN "OCEAN" ELSE "BEACH")
  ELSE IF temp < 20 THEN "TUNDRA"
  ELSE IF temp < 45 THEN (IF moist > 50 THEN "TAIGA" ELSE "TUNDRA")
  ELSE IF temp < 70
  THEN (IF moist > 68 THEN "SWAMP"
        ELSE IF moist > 55 THEN "FOREST"
        ELSE IF moist > 30 THEN "PLAINS"
        ELSE "PLAINS")
  ELSE IF moist > 55 THEN "JUNGLE"
  ELSE IF moist > 35 THEN "PLAINS"
  ELSE "DESERT"

\* A position whose noise values are temp and moist, before getBiome runs.
InitBiome ==
  \E temp \in 0 .. MaxHundredths, moist \in 0 .. MaxHundredths :
    bio = [pc |-> "start", temp |-> temp, moist |-> moist, biome |-> "NONE"]

\* The call getBiome(worldX, worldZ).
GetBiomeCall ==
  /\ bio.pc = "start"
  /\ bio' = [bio EXCEPT !.pc = "done", !.biome = GetBiome(bio.temp, bio.moist)]

----------------------------------------------------------------------------
(* Chunk Manager.  The class is not among the sources: Game.ts constructs  *)
(* it, wires generateChunk into it and calls its update every frame.  Its  *)
(* scheduling is modelled from the specification: chunks are created       *)
(* empty, generated and meshed by jobs handed to workers, lit in between,  *)
(* and evicted; a job whose result is no longer wanted stays in flight and *)
(* its result is dropped on arrival.                                       *)

\* The chunk coordinates of the model, a row 0 .. NumChunks - 1.
NumChunks == 2

ChunkCoords == 0 .. (NumChunks - 1)

\* The chunks whose boundary cells lighting and meshing of c read.
Neighbours(c) == {n \in ChunkCoords : n = c - 1 \/ n = c + 1}

\* No chunk loaded, no job in flight.  fresh and stale count, per kind of
\* job and coordinate, the jobs in flight whose result is still wanted and
\* those whose result has been superseded.
InitMgr ==
  mgr = [loaded |-> [c \in ChunkCoords |-> FALSE],
         stage  |-> [c \in ChunkCoords |-> "empty"],
         meshed |-> [c \in ChunkCoords |-> FALSE],
         fresh  |-> [k \in {"generate", "mesh"} |-> [c \in ChunkCoords |-> 0]],
         stale  |-> [k \in {"generate", "mesh"} |-> [c \in ChunkCoords |-> 0]]]

\* mgr after the results of the jobs of kind k in flight for the chunks S
\* have been superseded.
Superseded(m, k, S) ==
  [m EXCEPT !.stale[k] = [c \in ChunkCoords |->
                            IF c \in S THEN @[c] + m.fresh[k][c] ELSE @[c]],
            !.fresh[k] = [c \in ChunkCoords |-> IF c \in S THEN 0 ELSE @[c]]]

\* The chunk comes into the load radius and is created empty.
Load(c) ==
  /\ ~mgr.loaded[c]
  /\ mgr' = [mgr EXCEPT !.loaded[c] = TRUE, !.stage[c] = "empty", !.meshed[c] = FALSE]

\* The chunk leaves the load radius and is dropped; its jobs in flight are
\* abandoned, not interrupted.
Evict(c) ==
  /\ mgr.loaded[c]
  /\ mgr' = [Superseded(Superseded(mgr, "generate", {c}), "mesh", {c})
               EXCEPT !.loaded[c] = FALSE, !.stage[c] = "empty", !.meshed[c] = FALSE]

\* Dispatch that hands out a job while another of its kind is in flight
\* for the coordinate.
DispatchSecondJob(kind, c) ==
  /\ mgr.loaded[c]
  /\ IF kind = "generate" THEN mgr.stage[c] = "empty"
     ELSE /\ ~mgr.meshed[c] /\ mgr.stage[c] = "lit"
          /\ \A n \in Neighbours(c) : mgr.loaded[n] => mgr.stage[n] = "lit"
  /\ mgr' = [mgr EXCEPT !.fresh[kind][c] = @ + 1]

\* Dispatch that meshes a lit chunk whatever the state of its neighbours.
DispatchOwnChunkOnly(kind, c) ==
  /\ mgr.loaded[c]
  /\ mgr.fresh[kind][c] + mgr.stale[kind][c] = 0
  /\ IF kind = "generate" THEN mgr.stage[c] = "empty"
     ELSE ~mgr.meshed[c] /\ mgr.stage[c] = "lit"
  /\ mgr' = [mgr EXCEPT !.fresh[kind][c] = @ + 1]

\* A job of the kind is handed to a worker for the chunk: generation for
\* an empty chunk, meshing for a lit chunk without a current mesh whose
\* loaded neighbours are lit; never while a job of the kind, wanted or
\* superseded, is in flight for the coordinate.
Dispatch(kind, c) ==
  /\ mgr.loaded[c]
  /\ mgr.fresh[kind][c] + mgr.stale[kind][c] = 0
  /\ IF kind = "generate" THEN mgr.stage[c] = "empty"
     ELSE /\ ~mgr.meshed[c] /\ mgr.stage[c] = "lit"
          /\ \A n \in Neighbours(c) : mgr.loaded[n] => mgr.stage[n] = "lit"
  /\ mgr' = [mgr EXCEPT !.fresh[kind][c] = @ + 1]

\* A worker's result arrives: a superseded one is dropped, a wanted one is
\* applied.
Arrive(kind, c) ==
  \/ /\ mgr.stale[kind][c] > 0
     /\ mgr' = [mgr EXCEPT !.stale[kind][c] = @ - 1]
  \/ /\ mgr.fresh[kind][c] > 0
     /\ mgr' = IF kind = "generate"
               THEN [mgr EXCEPT !.fresh[kind][c] = @ - 1, !.stage[c] = "generated"]
               ELSE [mgr EXCEPT !.fresh[kind][c] = @ - 1, !.meshed[c] = TRUE]

\* The generated chunk is lit; the meshes of its neighbours, built without
\* its light, are no longer current.
Light(c) ==
  /\ mgr.loaded[c] /\ mgr.stage[c] = "generated"
  /\ mgr' = [Superseded(mgr, "mesh", Neighbours(c))
               EXCEPT !.stage[c] = "lit",
                      !.meshed = [n \in ChunkCoords |->
                                    IF n \in Neighbours(c) THEN FALSE ELSE @[n]]]

\* A block of the lit chunk is broken or placed: the chunk is to be lit
\* again, and it and its neighbours are to be meshed again.
Edit(c) ==
  /\ mgr.loaded[c] /\ mgr.stage[c] = "lit"
  /\ mgr' = [Superseded(mgr, "mesh", Neighbours(c) \cup {c})
               EXCEPT !.stage[c] = "generated",
                      !.meshed = [n \in ChunkCoords |->
                                    IF n \in Neighbours(c) \cup {c} THEN FALSE ELSE @[n]]]

----------------------------------------------------------------------------
(* Specifications                                                          *)

IdleFill ==
  /\ col = << >>
  /\ colH = 0
  /\ colBiome = "NONE"
  /\ colFilled = FALSE

IdleReg ==
  /\ regOp = "none"
  /\ regType = "AIR"
  /\ regFace = "side"
  /\ regResult = Returned("none")

IdleGrid ==
  /\ chunk = << >>
  /\ writes = << >>

IdleMine == mine = [pc |-> "idle"]

IdleTree == tree = [pc |-> "idle"]

IdleStruct == struct = [pc |-> "idle"]

IdleGen == gen = [pc |-> "idle"]

IdleBiome == bio = [pc |-> "idle"]

IdleMgr == mgr = [pc |-> "idle"]

IdleWeather == weather = [pc |-> "idle"]

IdlePlayer == player = [pc |-> "idle"]

IdleLight == light = [pc |-> "idle"]

IdleSide == IdleWeather /\ IdlePlayer /\ IdleLight

InitSpecFill ==
  /\ seaLevel \in SeaLevels /\ InitFill /\ IdleReg /\ IdleGrid
  /\ IdleMine /\ IdleTree /\ IdleStruct /\ IdleGen
  /\ IdleBiome /\ IdleMgr /\ IdleSide

NextSpecFill == FillColumnCall /\ UNCHANGED <<bio, mgr, sideVars, seaLevel, regVars, gridVars, passVars>>

SpecFill == InitSpecFill /\ [][NextSpecFill]_vars

InitSpecReg ==
  /\ seaLevel = SEA_LEVEL /\ InitReg /\ IdleFill /\ IdleGrid
  /\ IdleMine /\ IdleTree /\ IdleStruct /\ IdleGen
  /\ IdleBiome /\ IdleMgr /\ IdleSide

NextSpecReg ==
  \/ QueryGet /\ UNCHANGED <<bio, mgr, sideVars, seaLevel, fillVars, gridVars, passVars>>
  \/ QueryGetTexture /\ UNCHANGED <<bio, mgr, sideVars, seaLevel, fillVars, gridVars, passVars>>
  \/ QueryIsTransparent /\ UNCHANGED <<bio, mgr, sideVars, seaLevel, fillVars, gridVars, passVars>>
  \/ QueryIsSolid /\ UNCHANGED <<bio, mgr, sideVars, seaLevel, fillVars, gridVars, passVars>>

SpecReg == InitSpecReg /\ [][NextSpecReg]_vars

InitSpecMine ==
  /\ seaLevel = SEA_LEVEL /\ InitMine /\ IdleFill /\ IdleReg
  /\ IdleTree /\ IdleStruct /\ IdleGen
  /\ IdleBiome /\ IdleMgr /\ IdleSide

NextSpecMine ==
  \/ MineGenerate /\ UNCHANGED <<bio, mgr, sideVars, seaLevel, fillVars, regVars, tree, struct, gen>>
  \/ MineBranch /\ UNCHANGED <<bio, mgr, sideVars, seaLevel, fillVars, regVars, tree, struct, gen>>
  \/ MineCorridorStep /\ UNCHANGED <<bio, mgr, sideVars, seaLevel, fillVars, regVars, tree, struct, gen>>
  \/ MineCorridorReturn /\ UNCHANGED <<bio, mgr, sideVars, seaLevel, fillVars, regVars, tree, struct, gen>>
  \/ MineReturn /\ UNCHANGED <<bio, mgr, sideVars, seaLevel, fillVars, regVars, tree, struct, gen>>

SpecMine == InitSpecMine /\ [][NextSpecMine]_vars

InitSpecTree ==
  /\ seaLevel = SEA_LEVEL /\ InitTree /\ IdleFill /\ IdleReg
  /\ IdleMine /\ IdleStruct /\ IdleGen
  /\ IdleBiome /\ IdleMgr /\ IdleSide

NextSpecTree ==
  \/ PlaceTreesBegin /\ UNCHANGED <<bio, mgr, sideVars, seaLevel, fillVars, regVars, mine, struct, gen>>
  \/ PlaceTreesRow /\ UNCHANGED <<bio, mgr, sideVars, seaLevel, fillVars, regVars, mine, struct, gen>>
  \/ PlaceTreesReturn /\ UNCHANGED <<bio, mgr, sideVars, seaLevel, fillVars, regVars, mine, struct, gen>>

SpecTree == InitSpecTree /\ [][NextSpecTree]_vars

InitSpecStruct ==
  /\ seaLevel = SEA_LEVEL /\ InitStruct /\ IdleFill /\ IdleReg
  /\ IdleMine /\ IdleTree /\ IdleGen
  /\ IdleBiome /\ IdleMgr /\ IdleSide

NextSpecStruct ==
  \/ StructBegin /\ UNCHANGED <<bio, mgr, sideVars, seaLevel, fillVars, regVars, mine, tree, gen>>
  \/ StructWell /\ UNCHANGED <<bio, mgr, sideVars, seaLevel, fillVars, regVars, mine, tree, gen>>
  \/ StructCabin /\ UNCHANGED <<bio, mgr, sideVars, seaLevel, fillVars, regVars, mine, tree, gen>>
  \/ StructDungeon /\ UNCHANGED <<bio, mgr, sideVars, seaLevel, fillVars, regVars, mine, tree, gen>>
  \/ StructDungeonAttempt /\ UNCHANGED <<bio, mgr, sideVars, seaLevel, fillVars, regVars, mine, tree, gen>>
  \/ StructDungeonGivesUp /\ UNCHANGED <<bio, mgr, sideVars, seaLevel, fillVars, regVars, mine, tree, gen>>
  \/ StructDecorateRow /\ UNCHANGED <<bio, mgr, sideVars, seaLevel, fillVars, regVars, mine, tree, gen>>
  \/ StructReturn /\ UNCHANGED <<bio, mgr, sideVars, seaLevel, fillVars, regVars, mine, tree, gen>>

SpecStruct == InitSpecStruct /\ [][NextSpecStruct]_vars

InitSpecGen ==
  /\ seaLevel = SEA_LEVEL /\ InitGen /\ IdleFill /\ IdleReg
  /\ IdleMine /\ IdleTree /\ IdleStruct
  /\ IdleBiome /\ IdleMgr /\ IdleSide

NextSpecGen ==
  \/ GenBuildTerrain /\ UNCHANGED <<bio, mgr, sideVars, seaLevel, fillVars, regVars>>
  \/ GenCarve /\ UNCHANGED <<bio, mgr, sideVars, seaLevel, fillVars, regVars>>
  \/ GenOres /\ UNCHANGED <<bio, mgr, sideVars, seaLevel, fillVars, regVars>>
  \/ MineGenerate /\ UNCHANGED <<bio, mgr, sideVars, seaLevel, fillVars, regVars, tree, struct, gen>>
  \/ MineBranch /\ UNCHANGED <<bio, mgr, sideVars, seaLevel, fillVars, regVars, tree, struct, gen>>
  \/ MineCorridorStep /\ UNCHANGED <<bio, mgr, sideVars, seaLevel, fillVars, regVars, tree, struct, gen>>
  \/ MineCorridorReturn /\ UNCHANGED <<bio, mgr, sideVars, seaLevel, fillVars, regVars, tree, struct, gen>>
  \/ MineReturn /\ UNCHANGED <<bio, mgr, sideVars, seaLevel, fillVars, regVars, tree, struct, gen>>
  \/ GenPlaceTrees /\ UNCHANGED <<bio, mgr, sideVars, seaLevel, fillVars, regVars>>
  \/ StructBegin /\ UNCHANGED <<bio, mgr, sideVars, seaLevel, fillVars, regVars, mine, tree, gen>>
  \/ StructWell /\ UNCHANGED <<bio, mgr, sideVars, seaLevel, fillVars, regVars, mine, tree, gen>>
  \/ StructCabin /\ UNCHANGED <<bio, mgr, sideVars, seaLevel, fillVars, regVars, mine, tree, gen>>
  \/ StructDungeon /\ UNCHANGED <<bio, mgr, sideVars, seaLevel, fillVars, regVars, mine, tree, gen>>
  \/ StructDungeonAttempt /\ UNCHANGED <<bio, mgr, sideVars, seaLevel, fillVars, regVars, mine, tree, gen>>
  \/ StructDungeonGivesUp /\ UNCHANGED <<bio, mgr, sideVars, seaLevel, fillVars, regVars, mine, tree, gen>>
  \/ StructDecorateRest /\ UNCHANGED <<bio, mgr, sideVars, seaLevel, fillVars, regVars, mine, tree, gen>>
  \/ StructReturn /\ UNCHANGED <<bio, mgr, sideVars, seaLevel, fillVars, regVars, mine, tree, gen>>
  \/ GenAgain /\ UNCHANGED <<bio, mgr, sideVars, seaLevel, fillVars, regVars>>
  \/ GenReturn /\ UNCHANGED <<bio, mgr, sideVars, seaLevel, fillVars, regVars>>

SpecGen == InitSpecGen /\ [][NextSpecGen]_vars

InitSpecBiome ==
  /\ seaLevel = SEA_LEVEL /\ InitBiome /\ IdleFill /\ IdleReg /\ IdleGrid
  /\ IdleMine /\ IdleTree /\ IdleStruct /\ IdleGen /\ IdleMgr /\ IdleSide

NextSpecBiome ==
  GetBiomeCall /\ UNCHANGED <<mgr, sideVars, seaLevel, fillVars, regVars, gridVars, passVars>>

SpecBiome == InitSpecBiome /\ [][NextSpecBiome]_vars

InitSpecMgr ==
  /\ seaLevel = SEA_LEVEL /\ InitMgr /\ IdleFill /\ IdleReg /\ IdleGrid
  /\ IdleMine /\ IdleTree /\ IdleStruct /\ IdleGen /\ IdleBiome /\ IdleSide

NextSpecMgr ==
  \/ \E c \in ChunkCoords : Load(c) /\ UNCHANGED <<bio, sideVars, seaLevel, fillVars, regVars, gridVars, passVars>>
  \/ \E c \in ChunkCoords : Evict(c) /\ UNCHANGED <<bio, sideVars, seaLevel, fillVars, regVars, gridVars, passVars>>
  \/ \E c \in ChunkCoords : Dispatch("generate", c) /\ UNCHANGED <<bio, sideVars, seaLevel, fillVars, regVars, gridVars, passVars>>
  \/ \E c \in ChunkCoords : Dispatch("mesh", c) /\ UNCHANGED <<bio, sideVars, seaLevel, fillVars, regVars, gridVars, passVars>>
  \/ \E c \in ChunkCoords : Arrive("generate", c) /\ UNCHANGED <<bio, sideVars, seaLevel, fillVars, regVars, gridVars, passVars>>
  \/ \E c \in ChunkCoords : Arrive("mesh", c) /\ UNCHANGED <<bio, sideVars, seaLevel, fillVars, regVars, gridVars, passVars>>
  \/ \E c \in ChunkCoords : Light(c) /\ UNCHANGED <<bio, sideVars, seaLevel, fillVars, regVars, gridVars, passVars>>
  \/ \E c \in ChunkCoords : Edit(c) /\ UNCHANGED <<bio, sideVars, seaLevel, fillVars, regVars, gridVars, passVars>>

SpecMgr == InitSpecMgr /\ [][NextSpecMgr]_vars

----------------------------------------------------------------------------
(* WeatherSystem (rendering/TextureAtlas.ts)                               *)
(* Time is counted in whole seconds and the intensity in steps of          *)
(* 1 / FADE_DURATION, so that one second of fading is one step.            *)

FADE_DURATION == 5

WEATHER_MIN_DURATION == 120

WEATHER_MAX_DURATION == 300

CLEAR_MIN_DURATION == 180

CLEAR_MAX_DURATION == 480

\* Math.random() is one of RollSteps evenly spaced values of [0, 1).
RollSteps == 2

Roll(lo, hi, r) == lo + (r * (hi - lo)) \div RollSteps

\* The weather events counted: events is a history field the code does not
\* keep, it stops counting at MaxEvents.
MaxEvents == 2

\* The frame times an update is called with, in seconds.
Dts == {0, 1, 3, 175, 200}

\* The state after the constructor: init has not run yet.
InitWeather ==
  \E r \in 0 .. (RollSteps - 1) :
    weather = [pc |-> "constructed", state |-> "CLEAR", targetState |-> "CLEAR",
               intensity |-> 0,
               timer |-> Roll(CLEAR_MIN_DURATION, CLEAR_MAX_DURATION, r),
               biome |-> "NONE", startDt |-> 0, events |-> 0]

WeatherInit ==
  /\ weather.pc = "constructed"
  /\ weather' = [weather EXCEPT !.pc = "initialised"]

\* A copy of ChoosePrecipitation without the desert case.
ChoosePrecipitationAnywhere(biomeMap, biome) ==
  IF ~biomeMap THEN "RAIN"
  ELSE CASE biome \in {"TUNDRA", "TAIGA"} -> "SNOW"
         [] OTHER -> "RAIN"

ChoosePrecipitation(biomeMap, biome) ==
  IF ~biomeMap THEN "RAIN"
  ELSE CASE biome = "DESERT" -> "CLEAR"
         [] biome \in {"TUNDRA", "TAIGA"} -> "SNOW"
         [] OTHER -> "RAIN"

\* A copy of TrackState that leaves the state alone when the intensity is 0.
TrackStateNeverCleared(state, intensity, targetState) ==
  IF intensity > 0 /\ targetState # "CLEAR" THEN targetState ELSE state

\* "Track current active state": the state after the two ifs.
TrackState(state, intensity, targetState) ==
  IF intensity <= 0 THEN "CLEAR"
  ELSE IF targetState # "CLEAR" THEN targetState ELSE state

\* update(dt, playerX, playerY, playerZ); biome is what the biome map answers
\* at the player's position, r the roll of Math.random().
WeatherUpdate(dt, biome, r) ==
  IF weather.pc # "initialised" THEN UNCHANGED weather
  ELSE
    LET ran     == weather.timer - dt <= 0
        starts  == ran /\ weather.targetState = "CLEAR"
        chosen  == ChoosePrecipitation(TRUE, biome)
        target2 == IF ~ran THEN weather.targetState
                   ELSE IF starts THEN chosen ELSE "CLEAR"
        timer2  == IF ~ran THEN weather.timer - dt
                   ELSE IF starts
                        THEN IF chosen = "CLEAR" THEN Roll(30, 90, r)
                             ELSE Roll(WEATHER_MIN_DURATION, WEATHER_MAX_DURATION, r)
                        ELSE Roll(CLEAR_MIN_DURATION, CLEAR_MAX_DURATION, r)
        target  == IF target2 # "CLEAR" THEN FADE_DURATION ELSE 0
        faded   == IF weather.intensity < target
                   THEN IF weather.intensity + dt < FADE_DURATION
                        THEN weather.intensity + dt ELSE FADE_DURATION
                   ELSE IF weather.intensity > target
                        THEN IF weather.intensity - dt > 0
                             THEN weather.intensity - dt ELSE 0
                        ELSE weather.intensity
    IN weather' = [weather EXCEPT
         !.targetState = target2,
         !.timer = timer2,
         !.intensity = faded,
         !.state = TrackState(weather.state, faded, target2),
         !.biome = IF starts THEN biome ELSE IF ran THEN "NONE" ELSE @,
         !.startDt = IF starts THEN dt ELSE IF ran THEN 0 ELSE @,
         !.events = IF starts /\ chosen # "CLEAR" /\ @ < MaxEvents THEN @ + 1 ELSE @]

isRaining == weather.state = "RAIN" /\ weather.intensity > 0

isSnowing == weather.state = "SNOW" /\ weather.intensity > 0

InitSpecWeather ==
  /\ seaLevel = SEA_LEVEL /\ InitWeather /\ IdlePlayer /\ IdleLight
  /\ IdleFill /\ IdleReg /\ IdleGrid
  /\ IdleMine /\ IdleTree /\ IdleStruct /\ IdleGen /\ IdleBiome /\ IdleMgr

FrameUpdate(dt) ==
  /\ \E biome \in Biome \ {"MOUNTAINS"} : \E r \in 0 .. (RollSteps - 1) :
       WeatherUpdate(dt, biome, r)
  /\ UNCHANGED <<player, light, bio, mgr, seaLevel, fillVars, regVars, gridVars, passVars>>

NextSpecWeather ==
  \/ WeatherInit /\ UNCHANGED <<player, light, bio, mgr, seaLevel, fillVars, regVars, gridVars, passVars>>
  \/ \E dt \in Dts : FrameUpdate(dt)

SpecWeather == InitSpecWeather /\ [][NextSpecWeather]_vars

\* The render loop never stops: frames with a positive dt keep coming.
SpecWeatherLive ==
  /\ InitSpecWeather /\ [][NextSpecWeather]_vars
  /\ WF_vars(WeatherInit /\ UNCHANGED <<player, light, bio, mgr, seaLevel, fillVars, regVars, gridVars, passVars>>)
  /\ WF_vars(\E dt \in Dts \ {0} : FrameUpdate(dt))

----------------------------------------------------------------------------
(* Game.update: fall damage and drowning (Game.ts)                         *)
(* Time is counted in units of 0.025 s, half an air tick.  MAX_AIR and the *)
(* Player come from modules outside the sources modelled here: MAX_AIR and *)
(* the health of a fresh player are small numbers, both whole.             *)

MAX_AIR == 6

MaxHealth == 6

\* 0.05 s, the time one unit of air lasts under water.
AirTick == 2

\* 0.5 s, the time between two drowning hits.
DrownTick == 20

DROWN_DAMAGE == 2

\* Frame times: 0, 0.025, 0.075, 0.5 and 1.125 s.
FrameDts == {0, 1, 3, 20, 45}

\* What fallDamage.update answers; 0 stands for no fall or a fall into water.
FallDamages == {0, 2, 7}

\* The amounts a mob's attack passes to the callback.
AttackAmounts == {1, 3}

Floor0(n) == IF n > 0 THEN n ELSE 0

\* A fresh player and Game's accumulators; drowned, head and ui record the
\* last frame: whether drowning damage was applied, headSubmerged, uiOpen.
InitPlayer ==
  player = [pc |-> "play", air |-> MAX_AIR, health |-> MaxHealth,
            airTickAccum |-> 0, drownDmgAccum |-> 0,
            drowned |-> FALSE, head |-> FALSE, ui |-> FALSE]

\* while (airTickAccum >= 0.05) { airTickAccum -= 0.05; if (air > 0) air--; }
RECURSIVE AirLoop(_)
AirLoop(p) ==
  IF p.airTickAccum >= AirTick
  THEN AirLoop([p EXCEPT !.airTickAccum = @ - AirTick,
                         !.air = IF @ > 0 THEN @ - 1 ELSE @])
  ELSE p

\* while (drownDmgAccum >= 0.5) { drownDmgAccum -= 0.5; health = max(0, health - 2); }
RECURSIVE DrownLoop(_)
DrownLoop(p) ==
  IF p.drownDmgAccum >= DrownTick
  THEN DrownLoop([p EXCEPT !.drownDmgAccum = @ - DrownTick,
                           !.health = Floor0(@ - DROWN_DAMAGE),
                           !.drowned = TRUE])
  ELSE p

\* A copy of MobAttack without Math.max.
MobAttackUnclamped(amount) ==
  player' = [player EXCEPT !.health = @ - amount]

\* The callback MobManager calls when a mob hits the player.
MobAttack(amount) ==
  player' = [player EXCEPT !.health = Floor0(@ - amount)]

\* update(dt): the part that touches the player's air and health.
\* headSubmerged is what playerPhysics.update has left in the player,
\* fallDmg what fallDamage.update answers.
GameUpdate(dt, uiOpen, headSubmerged, fallDmg) ==
  LET p0 == [player EXCEPT !.drowned = FALSE, !.head = headSubmerged, !.ui = uiOpen]
      p1 == IF fallDmg > 0 THEN [p0 EXCEPT !.health = Floor0(@ - fallDmg)] ELSE p0
      p2 == AirLoop([p1 EXCEPT !.airTickAccum = @ + dt])
      p3 == IF p2.air <= 0
            THEN DrownLoop([p2 EXCEPT !.drownDmgAccum = @ + dt])
            ELSE p2
      up == IF p1.air + (3 * dt + 1) \div 2 < MAX_AIR
            THEN p1.air + (3 * dt + 1) \div 2 ELSE MAX_AIR
      p4 == [p1 EXCEPT !.airTickAccum = 0, !.drownDmgAccum = 0,
                       !.air = IF @ < MAX_AIR THEN up ELSE @]
  IN player' = IF uiOpen THEN [p0 EXCEPT !.head = player.head]
               ELSE IF headSubmerged THEN p3 ELSE p4

InitSpecGame ==
  /\ seaLevel = SEA_LEVEL /\ InitPlayer /\ IdleWeather /\ IdleLight
  /\ IdleFill /\ IdleReg /\ IdleGrid
  /\ IdleMine /\ IdleTree /\ IdleStruct /\ IdleGen /\ IdleBiome /\ IdleMgr

NextSpecGame ==
  \/ /\ \E dt \in FrameDts : \E uiOpen \in BOOLEAN : \E headSubmerged \in BOOLEAN :
          \E fallDmg \in FallDamages : GameUpdate(dt, uiOpen, headSubmerged, fallDmg)
     /\ UNCHANGED <<weather, light, bio, mgr, seaLevel, fillVars, regVars, gridVars, passVars>>
  \/ /\ \E amount \in AttackAmounts : MobAttack(amount)
     /\ UNCHANGED <<weather, light, bio, mgr, seaLevel, fillVars, regVars, gridVars, passVars>>

SpecGame == InitSpecGame /\ [][NextSpecGame]_vars

----------------------------------------------------------------------------
(* Lighting Engine.  Its code is not among the sources: the model follows  *)
(* the specification, a column scan that seeds the sunlight and a flood    *)
(* fill from a worklist of (coordinate, level) pairs, over a grid of       *)
(* 2 x 2 x 2 cells whose outside reads as opaque.                          *)

LightCells == (0 .. 1) \X (0 .. 1) \X (0 .. 1)

\* The cells in the order the seeding visits them; a cell is <<x, y, z>>.
CellSeq == [i \in 1 .. 8 |-> <<(i - 1) % 2, ((i - 1) \div 2) % 2, (i - 1) \div 4>>]

Opaque(tag) == ~RegisteredBlocks[tag].transparent

Emission(tag) == RegisteredBlocks[tag].lightEmission

Neighbours6(c) ==
  {<<c[1] - 1, c[2], c[3]>>, <<c[1] + 1, c[2], c[3]>>,
   <<c[1], c[2] - 1, c[3]>>, <<c[1], c[2] + 1, c[3]>>,
   <<c[1], c[2], c[3] - 1>>, <<c[1], c[2], c[3] + 1>>} \cap LightCells

\* A grid of STONE and AIR with at most one TORCH, not lit yet.
InitLight ==
  \E opaque \in SUBSET LightCells : \E torch \in LightCells \cup {<<>>} :
    light = [pc |-> "fresh",
             block |-> [c \in LightCells |->
                          IF c = torch THEN "TORCH"
                          ELSE IF c \in opaque THEN "STONE" ELSE "AIR"],
             sun |-> [c \in LightCells |-> 0],
             blk |-> [c \in LightCells |-> 0],
             queue |-> << >>]

\* The column scan: 15 from the top of the world down to the first opaque cell.
SunlightSeed(block, c) ==
  IF \A d \in LightCells :
       d[1] = c[1] /\ d[3] = c[3] /\ d[2] >= c[2] => ~Opaque(block[d])
  THEN 15 ELSE 0

\* A copy of CanEnter that lets light into opaque cells.
CanEnterAnyCell(tag, level, old) == level > 0 /\ level > old

\* Whether the flood carries level into a cell of this tag that holds old.
CanEnter(tag, level, old) == ~Opaque(tag) /\ level > 0 /\ level > old

\* The worklist entries of the cells that satisfy Lit, in seeding order.
Entries(ch, level, Lit(_)) ==
  LET picked == SelectSeq(CellSeq, Lit)
  IN [i \in 1 .. Len(picked) |-> <<ch, picked[i], level[picked[i]]>>]

\* Seeding: the sunlight by column scan, the block light at the emissive
\* cells; every seeded cell goes on the worklist.
LightSeed ==
  /\ light.pc = "fresh"
  /\ LET sun == [c \in LightCells |-> SunlightSeed(light.block, c)]
         blk == [c \in LightCells |-> Emission(light.block[c])]
     IN light' = [light EXCEPT
          !.pc = "flood", !.sun = sun, !.blk = blk,
          !.queue = Entries("sun", sun, LAMBDA c : sun[c] > 0)
                    \o Entries("blk", blk, LAMBDA c : blk[c] > 0)]

\* One step of the flood fill: the head of the worklist hands its level
\* less 1 to its orthogonal neighbours.
LightStep ==
  /\ light.pc = "flood" /\ light.queue # << >>
  /\ LET ch    == Head(light.queue)[1]
         c     == Head(light.queue)[2]
         level == Head(light.queue)[3] - 1
         old   == light[ch]
         Takes(n) == n \in Neighbours6(c) /\ CanEnter(light.block[n], level, old[n])
         new   == [n \in LightCells |-> IF Takes(n) THEN level ELSE old[n]]
     IN light' = [light EXCEPT
          ![ch] = new,
          !.queue = Tail(@) \o Entries(ch, new, Takes)]

LightReturn ==
  /\ light.pc = "flood" /\ light.queue = << >>
  /\ light' = [light EXCEPT !.pc = "lit"]

InitSpecLight ==
  /\ seaLevel = SEA_LEVEL /\ InitLight /\ IdleWeather /\ IdlePlayer
  /\ IdleFill /\ IdleReg /\ IdleGrid
  /\ IdleMine /\ IdleTree /\ IdleStruct /\ IdleGen /\ IdleBiome /\ IdleMgr

NextSpecLight ==
  \/ LightSeed /\ UNCHANGED <<weather, player, bio, mgr, seaLevel, fillVars, regVars, gridVars, passVars>>
  \/ LightStep /\ UNCHANGED <<weather, player, bio, mgr, seaLevel, fillVars, regVars, gridVars, passVars>>
  \/ LightReturn /\ UNCHANGED <<weather, player, bio, mgr, seaLevel, fillVars, regVars, gridVars, passVars>>

SpecLight == InitSpecLight /\ [][NextSpecLight]_vars

----------------------------------------------------------------------------
(* Claims                                                                  *)

IsSolidTag(t) == t \notin {"AIR", "WATER"}

\* C5: after fillColumn(h, biome) the column reads, bottom up: BEDROCK at
\* y = 0, only solid blocks (neither AIR nor WATER) up to and including the
\* surface block at y = h, WATER for h < y <= SEA_LEVEL exactly when h lies
\* below sea level, and AIR everywhere else above; the cell above an AIR cell
\* is AIR, so nothing but AIR lies above an AIR cell.
C5_SurfaceFill ==
  colFilled =>
    /\ col[0] = "BEDROCK"
    /\ \A y \in 1 .. colH : IsSolidTag(col[y])
    /\ col[colH] = GetSurfaceBlock(colBiome)
    /\ \A y \in (colH + 1) .. (CHUNK_HEIGHT - 1) :
         col[y] = IF colH < seaLevel /\ y <= seaLevel THEN "WATER" ELSE "AIR"
    /\ \A y \in 0 .. (CHUNK_HEIGHT - 2) :
         col[y] = "AIR" => col[y + 1] = "AIR"

\* C5 witness: a non-ocean column below sea level was filled and carries
\* water between its surface and the sea level, with air above.
C5_Witness ==
  /\ colFilled
  /\ colBiome = "SWAMP"
  /\ colH < seaLevel
  /\ col[colH + 1] = "WATER"
  /\ col[seaLevel + 1] = "AIR"

\* C10 as stated: every metadata query on a never-registered tag throws.
C10_AllQueriesThrow ==
  (regOp \in RegOps /\ regType \notin RegisteredTags) => regResult.threw

\* C10 amended: get and getTexture throw on a never-registered tag, while
\* isTransparent answers FALSE and isSolid answers TRUE without throwing.
C10_GetThrowsPredicatesDefault ==
  (regOp \in RegOps /\ regType \notin RegisteredTags) =>
    /\ regOp \in {"get", "getTexture"} => regResult.threw
    /\ regOp = "isTransparent" => regResult = Returned(FALSE)
    /\ regOp = "isSolid" => regResult = Returned(TRUE)

\* C10 witness: isSolid was asked about a never-registered tag and answered.
C10_Witness ==
  /\ regOp = "isSolid"
  /\ regType \in ForeignTags
  /\ ~regResult.threw

WaterOrBedrock == {"WATER", "BEDROCK"}

\* C2: every setBlock(..., AIR) of the hub room and of the corridors finds
\* neither BEDROCK nor WATER in the cell it empties.
C2_CarvingSparesWaterAndBedrock ==
  \A wr \in Writes : wr.new = "AIR" => wr.old \notin WaterOrBedrock

\* C2 witness: a corridor has emptied a cell right beside a cell of water,
\* which the same pass has left in place.
C2_Witness ==
  \E wr \in Writes :
    /\ wr.by = "carveCorridor" /\ wr.new = "AIR"
    /\ \E n \in {<<1, 0, 0>>, <<-1, 0, 0>>, <<0, 1, 0>>, <<0, -1, 0>>,
                  <<0, 0, 1>>, <<0, 0, -1>>} :
         /\ GetBlock(mine.entry, wr.x + n[1], wr.y + n[2], wr.z + n[3]) = "WATER"
         /\ GetBlock(chunk, wr.x + n[1], wr.y + n[2], wr.z + n[3]) = "WATER"

\* C3, as claimed: every cell the mineshaft turns into AIR held STONE or
\* AIR before the write.
C3_OnlyStoneOrAirRemoved ==
  \A wr \in Writes : wr.new = "AIR" => wr.old \in {"STONE", "AIR"}

\* C4, as claimed: a cell that held WATER or BEDROCK when generate was
\* entered holds the same tag in every later state of the call.
C4_WaterAndBedrockKept ==
  mine.pc \in {"branch", "corridor", "done"} =>
    \A x \in Coords, z \in Coords :
      chunk[x][z] # mine.entry[x][z] =>
        \A y \in 0 .. (CHUNK_HEIGHT - 1) :
          mine.entry[x][z][y] \in WaterOrBedrock => chunk[x][z][y] = mine.entry[x][z][y]

\* C6, as claimed: whatever the species, a leaf block is written only into
\* a cell that holds AIR at the time of the write.
C6_LeavesOnlyIntoAir ==
  \A wr \in Writes : wr.new \in Leaves => wr.old = "AIR"

\* The tryPlace call made last (for the dungeon, the last candidate tested).
LastTried == struct.tried[Len(struct.tried)]

\* C7, as claimed: where buildDungeon lays the floor and the ceiling of the
\* room's centre column, at the levels sy and sy + 4 of the candidate, the
\* cell held STONE before the write.
C7_FloorAndCeilingStone ==
  \A wr \in Writes :
    ( /\ wr.by = "buildDungeon" /\ wr.new = "COBBLESTONE"
      /\ wr.x = LastTried.sx + 3 /\ wr.z = LastTried.sz + 3
      /\ wr.y \in {LastTried.sy, LastTried.sy + 4} ) => wr.old = "STONE"

\* C7 amended: buildDungeon writes only at a candidate whose centre cell
\* (sx + 3, sy + 2, sz + 3) held STONE before the write and whose cell right
\* above the ceiling, (sx + 3, sy + 5, sz + 3), holds STONE.
C7_CentreAndAboveCeilingStone ==
  (\E wr \in Writes : wr.by = "buildDungeon") =>
    /\ \E wr \in Writes :
         /\ wr.by = "buildDungeon" /\ wr.new = "AIR" /\ wr.old = "STONE"
         /\ wr.x = LastTried.sx + 3 /\ wr.y = LastTried.sy + 2
         /\ wr.z = LastTried.sz + 3
    /\ GetBlock(chunk, LastTried.sx + 3, LastTried.sy + 5, LastTried.sz + 3) = "STONE"

\* C7 witness: tryPlaceDungeon has turned down candidates and then built
\* the room at a later one.
C7_Witness ==
  /\ struct.pc = "decorate"
  /\ Len(struct.tried) >= 2
  /\ ~struct.tried[1].placed
  /\ LastTried.kind = "tryPlaceDungeon" /\ LastTried.placed
  /\ \E wr \in Writes : wr.by = "buildDungeon" /\ wr.new = "TORCH"

\* C8: in one call of StructureGenerator.generate at most one of the desert
\* well, the cabin and the dungeon sets a block, whether or not a well or a
\* cabin was rolled and turned down before.
C8_AtMostOneLargeStructure ==
  /\ struct.pc # "idle" => Cardinality(struct.built) <= 1
  /\ struct.pc # "idle" => Builders(writes) \subseteq struct.built

\* C8 witness: the well was rolled, its placement failed on the flatness
\* check, and the dungeon was built in the same call.
C8_Witness ==
  /\ struct.pc = "done"
  /\ \E i \in 1 .. Len(struct.tried) :
       struct.tried[i].kind = "tryPlaceDesertWell" /\ ~struct.tried[i].placed
  /\ struct.built = {"buildDungeon"}

\* The heights of the footprint differ by k at most.
SpreadAtMost(heightmap, sx, sz, width, depth, k) ==
  \A a \in Area(sx, sz, width, depth), b \in Area(sx, sz, width, depth) :
    heightmap[a[1]][a[2]] - heightmap[b[1]][b[2]] <= k

\* The footprint of a well (5 x 5, spread 1) or cabin (7 x 5, spread 2)
\* attempt e is flat enough.
FlatEnough(e) ==
  IF e.kind = "tryPlaceDesertWell"
  THEN SpreadAtMost(struct.heightmap, e.sx, e.sz, 5, 5, 1)
  ELSE SpreadAtMost(struct.heightmap, e.sx, e.sz, 7, 5, 2)

\* A step that makes a well or cabin attempt e: the structure's blocks are
\* set only on a flat enough footprint; on any other the step sets no block
\* and placeStructures goes on to its next roll.
AttemptStepFlat(e) ==
  /\ e.placed => FlatEnough(e)
  /\ Builders(writes') # {} => FlatEnough(e)
  /\ ~FlatEnough(e) =>
       /\ chunk' = chunk
       /\ writes' = << >>
       /\ struct'.pc = IF e.kind = "tryPlaceDesertWell" THEN "cabin" ELSE "dungeon"

\* C9: a desert well is built only on a 5 x 5 footprint whose heights differ
\* by 1 at most, a cabin only on a 7 x 5 footprint whose heights differ by 2
\* at most; an attempt on any other footprint sets no block and generation
\* goes on with the next step, and no well or cabin block is ever set
\* outside such an attempt.
C9_FlatnessGuardsWellAndCabin ==
  [][ IF /\ struct.pc \in {"well", "cabin"}
         /\ Len(struct'.tried) > Len(struct.tried)
      THEN AttemptStepFlat(struct'.tried[Len(struct'.tried)])
      ELSE Builders(writes') \subseteq {"buildDungeon"} ]_vars

\* C9 witness: a well attempt has failed on the flatness check and the call
\* of generate has run to its end.
C9_Witness ==
  /\ struct.pc = "done"
  /\ Len(struct.tried) >= 1
  /\ struct.tried[1].kind = "tryPlaceDesertWell"
  /\ ~struct.tried[1].placed
  /\ ~SpreadAtMost(struct.heightmap, struct.tried[1].sx, struct.tried[1].sz, 5, 5, 1)

BaseBiomes == Biome \ {"MOUNTAINS"}

\* C11: whatever the temperature and the moisture in [0, 1], getBiome
\* returns a biome, one of the nine base biomes and never MOUNTAINS.
C11_GetBiomeTotal ==
  bio.pc = "done" => bio.biome \in BaseBiomes

\* C11: getBiome has run through its whole chain, past every band, and
\* has returned the last biome of the table.
C11_Witness ==
  /\ bio.pc = "done"
  /\ bio.temp >= 70 /\ bio.moist <= 35
  /\ bio.biome = "DESERT"

\* The thresholds getBiome compares the temperature and the moisture with.
TempThresholds == {20, 45, 70}

MoistThresholds == {30, 35, 50, 55, 68, 78, 85}

\* C12: a temperature or a moisture equal to a threshold is classified in
\* the band that starts at the threshold, as the values just above it are.
C12_BandsClosedBelow ==
  bio.pc = "done" =>
    /\ bio.temp \in TempThresholds => bio.biome = GetBiome(bio.temp + 1, bio.moist)
    /\ bio.moist \in MoistThresholds => bio.biome = GetBiome(bio.temp, bio.moist + 1)

\* The decorate method generate's switch calls for a biome; none for
\* MOUNTAINS, OCEAN and BEACH.
DecoratorOf(biome) ==
  CASE biome = "PLAINS" -> "decoratePlains"
    [] biome = "FOREST" -> "decorateForest"
    [] biome = "DESERT" -> "decorateDesert"
    [] biome = "TAIGA"  -> "decorateTaiga"
    [] biome = "TUNDRA" -> "decorateTundra"
    [] biome = "JUNGLE" -> "decorateJungle"
    [] biome = "SWAMP"  -> "decorateSwamp"
    [] OTHER            -> "none"

Decorators == {DecoratorOf(b) : b \in Biome} \ {"none"}

\* C13, as claimed: the structure pass goes by the effective biome that
\* surface fill and tree placement go by: the biome the large structures
\* are chosen for is the effective biome of the centre column, and a
\* decoration is set by the decorate method of its column's effective
\* biome, so never in a MOUNTAINS column.
C13_SameBiomeInEveryPass ==
  gen.pc = "structures" /\ struct.pc \notin {"idle", "start"} =>
    /\ struct.centerBiome = ProfileColumn(gen.profile, 8, 8).biome
    /\ \A w \in Writes :
         w.by \in Decorators =>
           w.by = DecoratorOf(ProfileColumn(gen.profile, w.x, w.z).biome)

\* The highest solid cell of a column.
SolidTop(column) ==
  CHOOSE y \in DOMAIN column :
    /\ IsSolidTag(column[y])
    /\ \A above \in DOMAIN column : above > y => ~IsSolidTag(column[above])

\* C14: generateChunk steps from surface fill to cave carving, to ore
\* scattering, to the mineshaft, to tree placement and to the structures,
\* in this order and each once per call; the mineshaft pass and the
\* structure pass have returned before the next begins, and the heights
\* handed to tree placement (trunks stand right above them) and to the
\* structure pass are the surface heights surface fill has left.
C14_FixedPassOrder ==
  [][gen' # gen =>
       CASE gen.pc = "buildTerrain" ->
              /\ gen'.pc = "carve"
              /\ \A lx \in Coords, lz \in Coords :
                   SolidTop(chunk'[lx][lz]) = Heightmap(gen.profile, lx, lz)
         [] gen.pc = "carve" -> gen'.pc = "ores"
         [] gen.pc = "ores" -> gen'.pc = "mineshaft" /\ mine'.pc = "start"
         [] gen.pc = "mineshaft" ->
              /\ mine.pc = "done"
              /\ gen'.pc = "structures" /\ struct'.pc = "start"
              /\ struct'.heightmap = HeightmapOf(gen.profile)
              /\ \A i \in 1 .. Len(writes') :
                   writes'[i].by = "trunk" =>
                     writes'[i].y > Heightmap(gen.profile, writes'[i].x, writes'[i].z)
         [] gen.pc = "structures" ->
              /\ struct.pc = "done"
              /\ gen'.pc = IF gen.call = 1 THEN "buildTerrain" ELSE "done"
         [] OTHER -> FALSE]_vars

\* C14: generateChunk has returned twice from a chunk where a large
\* structure was tried and found no fit place: no pass was cut short.
C14_Witness ==
  /\ gen.pc = "done" /\ gen.call = 2
  /\ struct.pc = "done"
  /\ \E i \in 1 .. Len(struct.tried) : ~struct.tried[i].placed

\* C15: while placeStructures runs, the decoration stream stays as chunkRng
\* has made it, whatever is rolled, tried or built; and once the
\* decoration runs, the structure stream and the record of the structures
\* tried stay as Phase 1 has left them.
C15_StreamsApart ==
  [][/\ struct.pc \in {"start", "well", "cabin", "dungeon", "attempt"} =>
          struct'.rng = StructChunkRng(struct.seed, struct.worldX, struct.worldZ)
     /\ struct.pc = "decorate" =>
          /\ struct'.structRng = struct.structRng
          /\ struct'.tried = struct.tried]_vars

\* C15: Phase 2 is about to start after a Phase 1 that has rolled and
\* built a structure, and the decoration stream is still unused.
C15_Witness ==
  /\ struct.pc = "decorate" /\ struct.lx = 0
  /\ struct.built # {}
  /\ struct.structRng # StructureRng(struct.seed, struct.worldX, struct.worldZ)
  /\ struct.rng = StructChunkRng(struct.seed, struct.worldX, struct.worldZ)

\* C16: every trunk placeTrees has set stands in a column whose block at
\* the heightmap height is GRASS, DIRT or SNOW, and whose biome is neither
\* DESERT nor OCEAN nor BEACH.  (No tree writes at or below the heightmap
\* height of a column it is rooted in, so the block is the one placeTrees
\* has read.)
C16_TreesRootOnGrassDirtSnow ==
  gen.pc = "structures" =>
    \A w \in Writes :
      w.by = "trunk" =>
        /\ GetBlock(chunk, w.x, Heightmap(gen.profile, w.x, w.z), w.z)
             \in {"GRASS", "DIRT", "SNOW"}
        /\ ProfileColumn(gen.profile, w.x, w.z).biome \notin {"DESERT", "OCEAN", "BEACH"}

\* C16: placeTrees has planted a tree in a chunk that also has columns of
\* sand and of stone.
C16_Witness ==
  /\ gen.pc = "structures" /\ struct.pc = "start"
  /\ \E w \in Writes : w.by = "trunk"
  /\ \E lx \in Coords, lz \in Coords :
       GetBlock(chunk, lx, Heightmap(gen.profile, lx, lz), lz) \in {"SAND", "STONE"}

\* C17, as claimed: every block a decorate method sets replaces AIR, the
\* upper blocks of a cactus included.
C17_DecorationOnlyIntoAir ==
  \A w \in Writes : w.by \in Decorators => w.old = "AIR"

\* C18: every setBlock call of the mineshaft generator lies in the chunk's
\* columns and at a height from 1 to 254.
C18_MineshaftWritesInChunk ==
  mine.pc # "idle" =>
    \A w \in Writes :
      /\ w.x >= 0 /\ w.x < CHUNK_SIZE
      /\ w.z >= 0 /\ w.z < CHUNK_SIZE
      /\ w.y >= 1 /\ w.y < 255

\* C18: a corridor has carved its way to the chunk's edge and stops there,
\* short of its length.
C18_Witness ==
  /\ mine.pc = "corridor"
  /\ mine.cor.step > 0 /\ mine.cor.step < mine.cor.length
  /\ ~CorridorInBounds(mine.cor.sx, mine.cor.sz, mine.cor.dx, mine.cor.dz, mine.cor.step)
  /\ Writes # {}

\* C19: per coordinate at most one generation job and at most one meshing
\* job is in flight, wanted or superseded; and a step in which a superseded
\* result arrives changes neither the blocks nor the mesh of any chunk.
C19_OneJobInFlight ==
  [][\A k \in {"generate", "mesh"}, c \in ChunkCoords :
       /\ mgr'.fresh[k][c] + mgr'.stale[k][c] <= 1
       /\ mgr'.stale[k][c] < mgr.stale[k][c] =>
            /\ mgr'.stage = mgr.stage
            /\ mgr'.meshed = mgr.meshed]_vars

\* C19: the chunk was evicted and loaded again while its generation job
\* was in flight: the job's result is superseded, the chunk is empty and
\* wants generating, and no second job can be handed out.
C19_Witness ==
  \E c \in ChunkCoords :
    /\ mgr.loaded[c] /\ mgr.stage[c] = "empty"
    /\ mgr.stale["generate"][c] = 1
    /\ ~ENABLED Dispatch("generate", c)

\* C20: when a meshing job is handed out for a chunk, the chunk and its
\* loaded neighbours have been generated and lit; and when a mesh is
\* applied, the chunk it is of is lit.
C20_MeshAfterLight ==
  [][\A c \in ChunkCoords :
       /\ mgr'.fresh["mesh"][c] > mgr.fresh["mesh"][c] =>
            /\ mgr.loaded[c] /\ mgr.stage[c] = "lit"
            /\ \A n \in Neighbours(c) : mgr.loaded[n] => mgr.stage[n] = "lit"
       /\ mgr'.meshed[c] /\ ~mgr.meshed[c] =>
            mgr.loaded[c] /\ mgr.stage[c] = "lit"]_vars

\* C20: a chunk is meshed next to a neighbour that is loaded and lit, and
\* another waits, lit, for its neighbour to be generated.
C20_Witness ==
  \E c \in ChunkCoords, n \in ChunkCoords :
    /\ n \in Neighbours(c)
    /\ mgr.meshed[c] /\ mgr.loaded[n] /\ mgr.stage[n] = "lit"
    /\ mgr.fresh["mesh"][n] = 1

\* The carveCorridor calls of the kind made so far, by their place in
\* mine.calls.
CallsOfKind(kind) == {i \in 1 .. Len(mine.calls) : mine.calls[i].kind = kind}

\* C22, as claimed: when buildNetwork has returned, it has carved as many
\* primary corridors from the hub as the branch count it rolled, 3, 4 or 5.
C22_BranchCountCorridors ==
  mine.pc = "done" /\ mine.branchCount > 0 =>
    Cardinality(CallsOfKind("primary")) = mine.branchCount

\* C23: every secondary corridor follows right after the primary corridor
\* it branches from, so no primary has two; it runs across its parent,
\* along +Z or -Z from a parent along X and along +X or -X from a parent
\* along Z; it starts at start + direction * length of the parent, which
\* itself starts at the hub; and that cell lies in the chunk.
C23_SecondaryPerpendicular ==
  \A i \in CallsOfKind("secondary") :
    /\ i > 1
    /\ mine.calls[i - 1].kind = "primary"
    /\ mine.calls[i - 1].sx = mine.startX /\ mine.calls[i - 1].sz = mine.startZ
    /\ mine.calls[i].sx = mine.startX + mine.calls[i - 1].dx * mine.calls[i - 1].length
    /\ mine.calls[i].sz = mine.startZ + mine.calls[i - 1].dz * mine.calls[i - 1].length
    /\ mine.calls[i - 1].dz = 0 =>
         mine.calls[i].dx = 0 /\ mine.calls[i].dz \in {1, 0 - 1}
    /\ mine.calls[i - 1].dz # 0 =>
         mine.calls[i].dz = 0 /\ mine.calls[i].dx \in {1, 0 - 1}
    /\ mine.calls[i].sx \in Coords /\ mine.calls[i].sz \in Coords

\* C23: a network is complete in which one primary corridor has a secondary
\* one and another primary corridor has none.
C23_Witness ==
  /\ mine.pc = "done"
  /\ CallsOfKind("secondary") # {}
  /\ \E i \in CallsOfKind("primary") :
       i < Len(mine.calls) /\ mine.calls[i + 1].kind = "primary"

\* C24, as claimed: when buildNetwork has returned, the cell at the centre
\* top of the hub room still holds the torch placed there.
C24_HubTorchSurvives ==
  mine.pc = "done" /\ mine.branchCount > 0 =>
    GetBlock(chunk, mine.startX, mine.baseY + 2, mine.startZ) = "TORCH"

\* C25: generateChunk called on a chunk that already holds blocks, those
\* of an earlier generation or WATER everywhere, leaves the grid it leaves
\* on a fresh chunk of the same coordinates.
C25_PriorContentsOverwritten ==
  gen.pc = "done" /\ gen.onto # "fresh" => chunk = gen.first

\* C25: generateChunk has returned from a chunk that was full of WATER,
\* and has left air, a tree and the surface of the terrain in it.
C25_Witness ==
  /\ gen.pc = "done" /\ gen.onto = "flooded"
  /\ \E x \in Coords, z \in Coords :
       /\ chunk[x][z][CHUNK_HEIGHT - 1] = "AIR"
       /\ \E y \in 60 .. 80 : chunk[x][z][y] \in Leaves

\* C26, as claimed: every tall grass, flower and cactus the decoration
\* sets stands on a block that is neither AIR nor WATER (the upper blocks
\* of a cactus stand on the cactus), also where a well or a cabin has been
\* built in the chunk.
C26_DecorationRestsOnGround ==
  \A w \in Writes :
    w.by \in Decorators => GetBlock(chunk, w.x, w.y - 1, w.z) \notin {"AIR", "WATER"}

C28_StateClearIffNoIntensity ==
  weather.pc = "initialised" =>
    /\ weather.intensity \in 0 .. FADE_DURATION
    /\ (weather.state = "CLEAR") <=> (weather.intensity = 0)
    /\ ~(isRaining /\ isSnowing)
    /\ weather.intensity = 0 => ~isRaining /\ ~isSnowing

\* C28: snow that is fading out: the target is CLEAR again, the intensity is
\* strictly between 0 and 1 and the state still reports SNOW.
C28_Witness ==
  /\ weather.pc = "initialised"
  /\ weather.state = "SNOW" /\ weather.targetState = "CLEAR"
  /\ weather.intensity \in 1 .. (FADE_DURATION - 1)
  /\ isSnowing

\* A weather event starts in this step: the target leaves CLEAR.
EventStarts == weather.targetState = "CLEAR" /\ weather'.targetState # "CLEAR"

\* C29: every weather event ends: once the target is RAIN or SNOW, under
\* repeated updates with positive dt the target returns to CLEAR, and the
\* intensity has faded back to 0 (state CLEAR) before the next event starts;
\* no event starts while the player's biome is DESERT, and SNOW is chosen
\* only in TUNDRA or TAIGA.
C29_WeatherEventsEnd ==
  /\ (weather.targetState # "CLEAR") ~> (weather.targetState = "CLEAR")
  /\ [][EventStarts => weather.intensity = 0 /\ weather.state = "CLEAR"]_vars
  /\ [][EventStarts =>
          /\ weather'.biome # "DESERT"
          /\ weather'.targetState = "SNOW" => weather'.biome \in {"TUNDRA", "TAIGA"}]_vars

\* C29, with the frame time bounded: the same, the intensity having faded
\* back to 0 before every event that starts in an update whose dt is at most
\* CLEAR_MIN_DURATION - FADE_DURATION seconds.
C29_EventsEndShortFrames ==
  /\ (weather.targetState # "CLEAR") ~> (weather.targetState = "CLEAR")
  /\ [][EventStarts /\ weather'.startDt <= CLEAR_MIN_DURATION - FADE_DURATION
          => weather.intensity = 0 /\ weather.state = "CLEAR"]_vars
  /\ [][EventStarts =>
          /\ weather'.biome # "DESERT"
          /\ weather'.targetState = "SNOW" => weather'.biome \in {"TUNDRA", "TAIGA"}]_vars

\* C29: a second event under way: snow chosen in the taiga by an update of
\* at most 175 s, after an earlier event ended and faded out.
C29_Witness ==
  /\ weather.pc = "initialised"
  /\ weather.targetState = "SNOW" /\ weather.biome = "TAIGA"
  /\ weather.startDt \in 1 .. (CLEAR_MIN_DURATION - FADE_DURATION)
  /\ weather.events = MaxEvents

BrightestNeighbour(level, c) ==
  IF Neighbours6(c) = {} THEN 0
  ELSE CHOOSE m \in {level[n] : n \in Neighbours6(c)} :
         \A n \in Neighbours6(c) : level[n] <= m

====
